---------------------------- MODULE Spec2Model ----------------------------
(***************************************************************************)
(* Rusty-Boy-DMG: the cartridge bank controller (cartridge.rs), the CPU    *)
(* instruction interpreter (cpu.rs, instructions.rs) and the frame driver  *)
(* (gameboy.rs) as state machines.                                         *)
(*                                                                         *)
(* Every object is one variable holding a record of the object's fields;   *)
(* every method is an operator from the record before the call to the      *)
(* record after it, so that a method that calls another is the composition *)
(* of the two operators, in the order of the source's statements.          *)
(***************************************************************************)
EXTENDS Integers, Sequences, FiniteSets, TLC

VARIABLES
    cartridge,        \* Cartridge: banking_type, current_rom_bank, current_ram_bank,
                      \*            rom_banking_mode, ram_write_enabled, ram_banks
    cpu,              \* Cpu: reg_af, reg_bc, reg_de, reg_hl, reg_sp (each [hi, lo]),
                      \*      reg_pc, interrupts_enabled, halted
    memory,           \* MemoryManager: the bytes of the address space known so far
                      \* (address :> byte); every other byte is as the ROM image and
                      \* the hardware left it, and is drawn when it is first read
    overflow_checks,  \* the build profile: TRUE when integer overflow panics (debug),
                      \* FALSE when it wraps (release)
    panic,            \* TRUE once the process has aborted
    gameboy,          \* Gameboy::step: where the frame driver stands (at) and its
                      \* locals max_cycles, cycles_per_step, current_cycles
    spent,            \* the cycles returned by interpret_opcode since power-on
    calls,            \* the calls made so far by a run that is bounded by their number
                      \* (direct stack calls, iterations of the frame loop)
    ret,              \* what the last call returned
    call,             \* the last call made: [op |-> name, ...its arguments]
    before            \* the objects as they were when that call was made

vars == <<cartridge, cpu, memory, overflow_checks, panic, gameboy, spent, calls, ret,
          call, before>>

---------------------------------------------------------------------------
(* Bit operations on unsigned integers (u8, u16), as the machine computes  *)
(* them.                                                                   *)

RECURSIVE BitAnd(_, _)
BitAnd(a, b) ==
    IF a = 0 \/ b = 0 THEN 0
    ELSE (a % 2) * (b % 2) + 2 * BitAnd(a \div 2, b \div 2)

RECURSIVE BitOr(_, _)
BitOr(a, b) ==
    IF a = 0 THEN b
    ELSE IF b = 0 THEN a
    ELSE (IF a % 2 = 1 \/ b % 2 = 1 THEN 1 ELSE 0) + 2 * BitOr(a \div 2, b \div 2)

RECURSIVE BitXor(_, _)
BitXor(a, b) ==
    IF a = 0 THEN b
    ELSE IF b = 0 THEN a
    ELSE (((a % 2) + (b % 2)) % 2) + 2 * BitXor(a \div 2, b \div 2)

Shr(a, n) == a \div (2 ^ n)

---------------------------------------------------------------------------
(* cartridge.rs                                                            *)

BankingTypes == {"NoBanking", "MBC1", "MBC2"}

\* The header bytes at rom[0x147] that Cartridge::new accepts.
HeaderBytes == 0 .. 6

\* The header byte of the cartridge the interpreter runs: an MBC1 one, the
\* type that decodes every control range.
CpuHeaders == { 1 }

\* Cartridge::new, the match on rom[0x147].
BankingTypeOf(header) ==
    CASE header = 0 -> "NoBanking"
      [] header \in {1, 2, 3} -> "MBC1"
      [] header \in {4, 5, 6} -> "MBC2"

\* Cartridge::new: the fields as constructed, for a ROM whose header byte
\* is `header`.  ram_banks holds the bytes stored so far (offset :> byte);
\* every other byte of [0; 0x8000] is 0.
NewCartridge(header) ==
    [ banking_type      |-> BankingTypeOf(header),
      current_rom_bank  |-> 1,
      current_ram_bank  |-> 0,
      rom_banking_mode  |-> TRUE,
      ram_write_enabled |-> FALSE,
      ram_banks         |-> [a \in {} |-> 0] ]

\* Mutant: the MBC2 address-bit-3 test is missing.
update_ram_writing_NoBit3Test(c, address, byte) ==
    IF BitAnd(byte, \h0F) = \h0A
    THEN [c EXCEPT !.ram_write_enabled = TRUE]
    ELSE IF BitAnd(byte, \h0F) = \h00
         THEN [c EXCEPT !.ram_write_enabled = FALSE]
         ELSE c

update_ram_writing(c, address, byte) ==
    IF c.banking_type = "MBC2" /\ Shr(BitAnd(address, \h08), 3) = 1
    THEN c
    ELSE IF BitAnd(byte, \h0F) = \h0A
         THEN [c EXCEPT !.ram_write_enabled = TRUE]
         ELSE IF BitAnd(byte, \h0F) = \h00
              THEN [c EXCEPT !.ram_write_enabled = FALSE]
              ELSE c

\* `if self.current_rom_bank == 0 { self.current_rom_bank += 1; }`
BumpZeroBank(bank) == IF bank = 0 THEN bank + 1 ELSE bank

\* Mutant: the MBC2 branch masks five bits instead of four.
change_lo_rom_bank_Mbc2FiveBits(c, byte) ==
    IF c.banking_type = "MBC2"
    THEN [c EXCEPT !.current_rom_bank = BumpZeroBank(BitAnd(byte, \h1F))]
    ELSE [c EXCEPT !.current_rom_bank =
              BumpZeroBank(BitOr(BitAnd(@, \hE0), BitAnd(byte, \h1F)))]

\* Mutant: the MBC1 branch does not keep bits 5-7.
change_lo_rom_bank_DropsHigh(c, byte) ==
    IF c.banking_type = "MBC2"
    THEN [c EXCEPT !.current_rom_bank = BumpZeroBank(BitAnd(byte, \h0F))]
    ELSE [c EXCEPT !.current_rom_bank = BumpZeroBank(BitAnd(byte, \h1F))]

change_lo_rom_bank(c, byte) ==
    IF c.banking_type = "MBC2"
    THEN [c EXCEPT !.current_rom_bank = BumpZeroBank(BitAnd(byte, \h0F))]
    ELSE [c EXCEPT !.current_rom_bank =
              BumpZeroBank(BitOr(BitAnd(@, \hE0), BitAnd(byte, \h1F)))]

\* Mutant: the bump of bank 0 to bank 1 is missing.
change_hi_rom_bank_NoBump(c, byte) ==
    LET upper_three == BitAnd(byte, \hE0)
    IN  [c EXCEPT !.current_rom_bank = BitOr(BitAnd(@, \h1F), upper_three)]

change_hi_rom_bank(c, byte) ==
    LET upper_three == BitAnd(byte, \hE0)
    IN  [c EXCEPT !.current_rom_bank =
              BumpZeroBank(BitOr(BitAnd(@, \h1F), upper_three))]

\* Mutant: the RAM bank takes four bits of the byte.
change_ram_bank_FourBits(c, byte) ==
    [c EXCEPT !.current_ram_bank = BitAnd(byte, \h0F)]

change_ram_bank(c, byte) ==
    [c EXCEPT !.current_ram_bank = BitAnd(byte, \h03)]

\* Mutant: entering ROM banking mode does not reset the RAM bank.
set_banking_mode_KeepsRamBank(c, byte) ==
    [c EXCEPT !.rom_banking_mode = (BitAnd(byte, \h01) = 0)]

set_banking_mode(c, byte) ==
    LET mode == (BitAnd(byte, \h01) = 0)
        c1   == [c EXCEPT !.rom_banking_mode = mode]
    IN  IF c1.rom_banking_mode
        THEN [c1 EXCEPT !.current_ram_bank = 0]
        ELSE c1

\* Mutant: the mode range accepts MBC2 as the two lower ranges do.
manage_banking_Mbc2ModeWrite(c, address, byte) ==
    IF address < \h2000
    THEN IF c.banking_type = "MBC1" \/ c.banking_type = "MBC2"
         THEN update_ram_writing(c, address, byte)
         ELSE c
    ELSE IF address >= \h2000 /\ address < \h4000
    THEN IF c.banking_type = "MBC1" \/ c.banking_type = "MBC2"
         THEN change_lo_rom_bank(c, byte)
         ELSE c
    ELSE IF address >= \h4000 /\ address < \h6000
    THEN IF c.banking_type = "MBC1"
         THEN IF c.rom_banking_mode
              THEN change_hi_rom_bank(c, byte)
              ELSE change_ram_bank(c, byte)
         ELSE c
    ELSE IF address >= \h6000 /\ address < \h8000
    THEN IF c.banking_type = "MBC1" \/ c.banking_type = "MBC2"
         THEN set_banking_mode(c, byte)
         ELSE c
    ELSE c

\* Mutant: a write to 0x4000-0x5FFF selects the RAM bank in either mode.
manage_banking_RamBankInAnyMode(c, address, byte) ==
    IF address < \h2000
    THEN IF c.banking_type = "MBC1" \/ c.banking_type = "MBC2"
         THEN update_ram_writing(c, address, byte)
         ELSE c
    ELSE IF address >= \h2000 /\ address < \h4000
    THEN IF c.banking_type = "MBC1" \/ c.banking_type = "MBC2"
         THEN change_lo_rom_bank(c, byte)
         ELSE c
    ELSE IF address >= \h4000 /\ address < \h6000
    THEN IF c.banking_type = "MBC1"
         THEN change_ram_bank(c, byte)
         ELSE c
    ELSE IF address >= \h6000 /\ address < \h8000
    THEN IF c.banking_type = "MBC1"
         THEN set_banking_mode(c, byte)
         ELSE c
    ELSE c

manage_banking(c, address, byte) ==
    IF address < \h2000
    THEN IF c.banking_type = "MBC1" \/ c.banking_type = "MBC2"
         THEN update_ram_writing(c, address, byte)
         ELSE c
    ELSE IF address >= \h2000 /\ address < \h4000
    THEN IF c.banking_type = "MBC1" \/ c.banking_type = "MBC2"
         THEN change_lo_rom_bank(c, byte)
         ELSE c
    ELSE IF address >= \h4000 /\ address < \h6000
    THEN IF c.banking_type = "MBC1"
         THEN IF c.rom_banking_mode
              THEN change_hi_rom_bank(c, byte)
              ELSE change_ram_bank(c, byte)
         ELSE c
    ELSE IF address >= \h6000 /\ address < \h8000
    THEN IF c.banking_type = "MBC1"
         THEN set_banking_mode(c, byte)
         ELSE c
    ELSE c

\* Cartridge::get_ram / set_ram: direct indexed access into ram_banks.
get_ram(c, address) ==
    IF address \in DOMAIN c.ram_banks THEN c.ram_banks[address] ELSE 0

\* set_ram storing only while RAM writes are enabled.
set_ram_Gated(c, address, byte) ==
    IF c.ram_write_enabled
    THEN [c EXCEPT !.ram_banks = (address :> byte) @@ @]
    ELSE c

set_ram(c, address, byte) ==
    [c EXCEPT !.ram_banks = (address :> byte) @@ @]

---------------------------------------------------------------------------
(* register_pair.rs: a 16-bit value held as two bytes.                     *)

get_pair(pair) == pair.hi * 256 + pair.lo

set_pair(value) == [hi |-> value \div 256, lo |-> value % 256]

---------------------------------------------------------------------------
(* The machine a Cpu method runs on: the Cpu's own fields, the memory and  *)
(* cartridge it reaches through memory_manager, and the outcome of the     *)
(* call so far.                                                            *)
(*   panic  - the call has panicked                                        *)
(*   miss   - the first address the call read whose byte is not known yet  *)
(*   checks - the build's overflow checks                                  *)
(*   ret    - the value the call returns                                   *)

NoMiss == -1
NoRet  == -1

Wrap8(x)  == x % 256
Wrap16(x) == x % 65536

\* An arithmetic operation that overflows its type panics when the build
\* checks overflow; otherwise the value wraps.
Checked(m, overflowed) ==
    [m EXCEPT !.panic = @ \/ (m.checks /\ overflowed)]

Ret(m, cycles) == [m EXCEPT !.ret = cycles]

---------------------------------------------------------------------------
(* memory_manager.rs: read_memory(address) and write_memory(address,       *)
(* value).  Writes to 0x0000-0x7FFF go to Cartridge::manage_banking and    *)
(* store nothing; the switchable ROM window 0x4000-0x7FFF shows another    *)
(* bank once current_rom_bank changes; 0xA000-0xBFFF is the cartridge RAM  *)
(* window, read with get_ram and written with set_ram when                 *)
(* ram_write_enabled; every other address is plain memory.                 *)

InRomControl(address) == address < \h8000
InRomWindow(address)  == address >= \h4000 /\ address < \h8000
InRamWindow(address)  == address >= \hA000 /\ address < \hC000

RamOffset(c, address) == (address - \hA000) + c.current_ram_bank * \h2000

Known(m, address) == InRamWindow(address) \/ address \in DOMAIN m.memory

read_memory(m, address) ==
    IF InRamWindow(address)
    THEN get_ram(m.cartridge, RamOffset(m.cartridge, address))
    ELSE IF address \in DOMAIN m.memory THEN m.memory[address] ELSE 0

\* The read of `address` as an event: the first read of a byte that is not
\* known yet is recorded, to be drawn before the call is made.
Observe(m, address) ==
    IF m.panic \/ m.miss # NoMiss \/ Known(m, address)
    THEN m
    ELSE [m EXCEPT !.miss = address]

write_memory(m, address, value) ==
    IF InRomControl(address)
    THEN LET c == manage_banking(m.cartridge, address, value)
         IN  [m EXCEPT !.cartridge = c,
                       !.memory =
                          IF c.current_rom_bank = m.cartridge.current_rom_bank
                          THEN @
                          ELSE [a \in {x \in DOMAIN @ : ~InRomWindow(x)} |-> @[a]]]
    ELSE IF InRamWindow(address)
    THEN IF m.cartridge.ram_write_enabled
         THEN [m EXCEPT !.cartridge =
                   set_ram(@, RamOffset(m.cartridge, address), value)]
         ELSE m
    ELSE [m EXCEPT !.memory = (address :> value) @@ @]

---------------------------------------------------------------------------
(* instructions.rs                                                         *)

\* test_bit answering for the bit being clear.
test_bit_Inverted(byte, bit) == Shr(BitAnd(byte, 2 ^ bit), bit) = 0

test_bit(byte, bit) == Shr(BitAnd(byte, 2 ^ bit), bit) = 1

set_bit(byte, bit) == BitOr(byte, 2 ^ bit)

reset_bit(byte, bit) == BitAnd(byte, 255 - 2 ^ bit)

\* inc_reg_pair stepping the pair down.
inc_reg_pair_Down(dest) == set_pair(Wrap16(get_pair(dest) - 1))

inc_reg_pair(dest) == set_pair(Wrap16(get_pair(dest) + 1))

dec_reg_pair(dest) == set_pair(Wrap16(get_pair(dest) - 1))

ld_u16_reg_pair(src) == set_pair(src)

ld_u8_reg(src) == src

---------------------------------------------------------------------------
(* cpu.rs: construction, fetch, stack and flags.                           *)

NewCpu ==
    [ reg_af |-> set_pair(\h01B0),
      reg_bc |-> set_pair(\h0013),
      reg_de |-> set_pair(\h00D8),
      reg_hl |-> set_pair(\h014D),
      reg_sp |-> set_pair(\hFFFE),
      reg_pc |-> \h0100,
      interrupts_enabled |-> FALSE,
      halted |-> FALSE ]

\* `self.reg_pc += n` left out.
AdvancePc_Stays(m, n) == m

\* `self.reg_pc += n`
AdvancePc(m, n) ==
    Checked([m EXCEPT !.cpu.reg_pc = Wrap16(@ + n)], m.cpu.reg_pc + n > 65535)

\* Methods that return a value yield [m |-> the machine after, val |-> it].
get_byte(m) ==
    LET byte == read_memory(m, m.cpu.reg_pc)
        m1   == Observe(m, m.cpu.reg_pc)
    IN  [m |-> AdvancePc(m1, 1), val |-> byte]

get_word(m) ==
    LET pc      == m.cpu.reg_pc
        byte_lo == read_memory(m, pc)
        m1      == Observe(m, pc)
        m2      == Checked(m1, pc + 1 > 65535)
        byte_hi == read_memory(m, Wrap16(pc + 1))
        m3      == Observe(m2, Wrap16(pc + 1))
        word    == BitOr(byte_hi * 256, byte_lo)
    IN  [m |-> AdvancePc(m3, 2), val |-> word]

set_reg_pc(m, reg_pc) == [m EXCEPT !.cpu.reg_pc = reg_pc]

set_halted(m, halted) == [m EXCEPT !.cpu.halted = halted]

set_interrupts_enabled(m, enabled) == [m EXCEPT !.cpu.interrupts_enabled = enabled]

stack_push_LowByteTwice(m, val) ==
    LET prev   == get_pair(m.cpu.reg_sp)
        val_hi == BitAnd(val, \hFF)
        m1 == Checked([m EXCEPT !.cpu.reg_sp = set_pair(Wrap16(prev - 1))],
                      prev - 1 < 0)
        m2 == write_memory(m1, get_pair(m1.cpu.reg_sp), val_hi)
        m3 == Checked([m2 EXCEPT !.cpu.reg_sp = set_pair(Wrap16(prev - 2))],
                      prev - 2 < 0)
    IN  write_memory(m3, get_pair(m3.cpu.reg_sp), val_hi)

stack_push(m, val) ==
    LET prev   == get_pair(m.cpu.reg_sp)
        val_lo == Shr(val, 8)
        val_hi == BitAnd(val, \hFF)
        m1 == Checked([m EXCEPT !.cpu.reg_sp = set_pair(Wrap16(prev - 1))],
                      prev - 1 < 0)
        m2 == write_memory(m1, get_pair(m1.cpu.reg_sp), val_hi)
        m3 == Checked([m2 EXCEPT !.cpu.reg_sp = set_pair(Wrap16(prev - 2))],
                      prev - 2 < 0)
    IN  write_memory(m3, get_pair(m3.cpu.reg_sp), val_lo)

stack_pop(m) ==
    LET prev == get_pair(m.cpu.reg_sp)
        hi   == read_memory(m, prev) * 256
        m1   == Observe(m, prev)
        m2   == Checked(m1, prev + 1 > 65535)
        word == BitOr(hi, read_memory(m, Wrap16(prev + 1)))
        m3   == Observe(m2, Wrap16(prev + 1))
        m4   == Checked([m3 EXCEPT !.cpu.reg_sp = set_pair(Wrap16(prev + 2))],
                        prev + 2 > 65535)
    IN  [m |-> m4, val |-> word]

call_routine(m, address) ==
    LET pc == m.cpu.reg_pc
    IN  [stack_push(m, pc) EXCEPT !.cpu.reg_pc = address]

update_zero_flag(m, result) ==
    IF result = 0
    THEN [m EXCEPT !.cpu.reg_af.lo = set_bit(@, 7)]
    ELSE [m EXCEPT !.cpu.reg_af.lo = reset_bit(@, 7)]

update_subtract_flag(m, sub_occurred) ==
    IF sub_occurred
    THEN [m EXCEPT !.cpu.reg_af.lo = set_bit(@, 6)]
    ELSE [m EXCEPT !.cpu.reg_af.lo = reset_bit(@, 6)]

update_half_carry_flag(m, half_carry_occurred) ==
    IF half_carry_occurred
    THEN [m EXCEPT !.cpu.reg_af.lo = set_bit(@, 5)]
    ELSE [m EXCEPT !.cpu.reg_af.lo = reset_bit(@, 5)]

update_carry_flag_Bit3(m, carry_occurred) ==
    IF carry_occurred
    THEN [m EXCEPT !.cpu.reg_af.lo = set_bit(@, 3)]
    ELSE [m EXCEPT !.cpu.reg_af.lo = reset_bit(@, 3)]

update_carry_flag(m, carry_occurred) ==
    IF carry_occurred
    THEN [m EXCEPT !.cpu.reg_af.lo = set_bit(@, 4)]
    ELSE [m EXCEPT !.cpu.reg_af.lo = reset_bit(@, 4)]

---------------------------------------------------------------------------
(* cpu.rs: arithmetic and logic helpers.  A helper that works through a    *)
(* `&mut u8` yields [m |-> the machine after, val |-> the byte after].     *)

Bit(b) == IF b THEN 1 ELSE 0

\* `as i8` left out: the byte taken as unsigned.
AsI8_Unsigned(x) == x

\* `(x as i8) as i32`
AsI8(x) == IF x >= 128 THEN x - 256 ELSE x

\* Mutant: Half-Carry is taken from the low nibble of the sum.
add_u8_a_HalfCarryOfSum(m, src) ==
    LET a   == m.cpu.reg_af.hi
        sum == Wrap8(a + src)
        m1  == [m EXCEPT !.cpu.reg_af.hi = sum]
        m2  == update_half_carry_flag(m1,
                 BitAnd(BitAnd(src, \h0F) + BitAnd(sum, \h0F), \h10) = \h10)
        m3  == update_carry_flag(m2, src + sum > \hFF)
        m4  == update_zero_flag(m3, sum)
    IN  update_subtract_flag(m4, FALSE)

add_u8_a(m, src) ==
    LET a   == m.cpu.reg_af.hi
        sum == Wrap8(a + src)
        m1  == [m EXCEPT !.cpu.reg_af.hi = sum]
        m2  == update_half_carry_flag(m1,
                 BitAnd(BitAnd(src, \h0F) + BitAnd(a, \h0F), \h10) = \h10)
        m3  == update_carry_flag(m2, src + sum > \hFF)
        m4  == update_zero_flag(m3, sum)
    IN  update_subtract_flag(m4, FALSE)

adc_reg_a(m, src) ==
    LET a     == m.cpu.reg_af.hi
        carry == Bit(test_bit(m.cpu.reg_af.lo, 4))
        sum   == Wrap8(Wrap8(a + src) + carry)
        m1    == [m EXCEPT !.cpu.reg_af.hi = sum]
        m2    == update_half_carry_flag(m1,
                   BitAnd(BitAnd(src, \h0F) + BitAnd(a, \h0F) + carry, \h10) = \h10)
        m3    == update_carry_flag(m2, src + sum > \hFF)
        m4    == update_zero_flag(m3, sum)
    IN  update_subtract_flag(m4, FALSE)

\* Yields the machine only: `src` is read, never written.
add_u16_hl(m, src) ==
    LET hl == get_pair(m.cpu.reg_hl)
        m1 == [m EXCEPT !.cpu.reg_hl = set_pair(Wrap16(hl + src))]
        m2 == update_half_carry_flag(m1,
                BitAnd(BitAnd(src, \hFFF) + BitAnd(hl, \hFFF), \h100) = \h100)
        m3 == update_carry_flag(m2, src + hl > \hFFFF)
    IN  update_subtract_flag(m3, FALSE)

inc_u8(m, dest) ==
    LET new == Wrap8(dest + 1)
        m1  == update_zero_flag(m, new)
        m2  == update_half_carry_flag(m1,
                 BitAnd(1 + BitAnd(new, \h0F), \h10) = \h10)
    IN  [m |-> update_subtract_flag(m2, FALSE), val |-> new]

dec_u8(m, dest) ==
    LET new == Wrap8(dest - 1)
        m1  == update_zero_flag(m, new)
        m2  == update_half_carry_flag(m1, BitAnd(new, \h0F) < 1)
    IN  [m |-> update_subtract_flag(m2, TRUE), val |-> new]

sub_u8_a(m, src) ==
    LET a   == m.cpu.reg_af.hi
        sum == Wrap8(a - src)
        m1  == [m EXCEPT !.cpu.reg_af.hi = sum]
        m2  == update_half_carry_flag(m1, BitAnd(a, \h0F) < BitAnd(sum, \h0F))
        m3  == update_carry_flag(m2, (src - sum) < 0)
        m4  == update_zero_flag(m3, sum)
    IN  update_subtract_flag(m4, TRUE)

sbc_reg_a(m, src) ==
    LET a     == m.cpu.reg_af.hi
        carry == Bit(test_bit(m.cpu.reg_af.lo, 4))
        sum   == Wrap8(Wrap8(a - src) - carry)
        m1    == [m EXCEPT !.cpu.reg_af.hi = sum]
        m2    == update_half_carry_flag(m1,
                   BitAnd(a, \h0F) < BitAnd(sum, \h0F) + carry)
        m3    == update_carry_flag(m2, src + sum > \hFF)
        m4    == update_zero_flag(m3, sum)
    IN  update_subtract_flag(m4, FALSE)

\* and / or / xor share their tail: half-carry as given, carry and subtract
\* cleared, zero from the result.
LogicFlags(m, res, half_carry) ==
    LET m1 == [m EXCEPT !.cpu.reg_af.hi = res]
        m2 == update_half_carry_flag(m1, half_carry)
        m3 == update_carry_flag(m2, FALSE)
        m4 == update_zero_flag(m3, res)
    IN  update_subtract_flag(m4, FALSE)

\* Mutant: AND clears Half-Carry as OR and XOR do.
and_reg_a_HalfCarryClear(m, src) ==
    LogicFlags(m, BitAnd(m.cpu.reg_af.hi, src), FALSE)

and_reg_a(m, src) == LogicFlags(m, BitAnd(m.cpu.reg_af.hi, src), TRUE)

or_reg_a(m, src) == LogicFlags(m, BitOr(m.cpu.reg_af.hi, src), FALSE)

xor_reg_a(m, src) == LogicFlags(m, BitXor(m.cpu.reg_af.hi, src), FALSE)

\* Mutant: the accumulator is not restored after the subtraction.
cp_reg_a_KeepsDifference(m, src) == sub_u8_a(m, src)

cp_reg_a(m, src) ==
    LET a == m.cpu.reg_af.hi
    IN  [sub_u8_a(m, src) EXCEPT !.cpu.reg_af.hi = a]

\* The four rotates share their tail: half-carry and subtract cleared, carry
\* from the bit rotated out, zero from the result.
RotateFlags(m, res, carry_occurred) ==
    LET m1 == update_half_carry_flag(m, FALSE)
        m2 == update_carry_flag(m1, carry_occurred)
        m3 == update_zero_flag(m2, res)
    IN  [m |-> update_subtract_flag(m3, FALSE), val |-> res]

\* rl_u8 without the incoming carry.
rl_u8_NoCarryIn(m, src) ==
    LET carry_occurred == Shr(src, 7) = 1
        res == Wrap8(src * 2)
    IN  RotateFlags(m, res, carry_occurred)

rl_u8(m, src) ==
    LET carry_occurred == Shr(src, 7) = 1
        shifted == Wrap8(src * 2)
        res == IF test_bit(m.cpu.reg_af.lo, 4) THEN BitOr(shifted, 1) ELSE shifted
    IN  RotateFlags(m, res, carry_occurred)

rlc_u8(m, src) ==
    LET carry_occurred == Shr(src, 7) = 1
        res == Wrap8(src * 2) + Shr(src, 7)
    IN  RotateFlags(m, res, carry_occurred)

rr_u8(m, src) ==
    LET carry_occurred == BitAnd(src, 1) = 1
        shifted == Shr(src, 1)
        res == IF test_bit(m.cpu.reg_af.lo, 4) THEN BitOr(shifted, \h80) ELSE shifted
    IN  RotateFlags(m, res, carry_occurred)

rrc_u8(m, src) ==
    LET carry_occurred == BitAnd(src, 1) = 1
        res == Shr(src, 1) + BitAnd(src, 1) * \h80
    IN  RotateFlags(m, res, carry_occurred)

swap_nybbles(byte) == BitOr(Wrap8(BitAnd(byte, \hF) * 16), Shr(byte, 4))

---------------------------------------------------------------------------
(* cpu.rs: interpret_opcode and extended_instruction.  Each arm of the two *)
(* `match opcode` tables is one arm of a CASE, statement by statement: rN  *)
(* is the outcome of a call that returns a value, mN the machine after a   *)
(* statement.                                                              *)

\* read_memory as the call the interpreter makes.
Read(m, address) == [m |-> Observe(m, address), val |-> read_memory(m, address)]

\* `_ => panic!(...)`
Undefined(m) == [m EXCEPT !.panic = TRUE]

\* extended_instruction with every arm rotating A as the 0x08 arm does.
extended_instruction_AllRotateA(m0) ==
    LET r0 == get_byte(m0)
        r1 == rlc_u8(r0.m, r0.m.cpu.reg_af.hi)
        m2 == [r1.m EXCEPT !.cpu.reg_af.hi = r1.val]
    IN  Ret(m2, 8)

\* extended_instruction: the table behind the 0xCB prefix.  0x00-0x05 and 0x08
\* rotate a register; 0x07 has no arm; every other arm is a bare cycle count,
\* 16 for the (HL) column (opcode % 8 = 6) and 8 elsewhere.
extended_instruction(m0) ==
    LET r0     == get_byte(m0)
        opcode == r0.val
        m      == r0.m
    IN  CASE opcode = \h00 ->
                LET r1 == rlc_u8(m, m.cpu.reg_bc.hi)
                    m2 == [r1.m EXCEPT !.cpu.reg_bc.hi = r1.val]
                IN  Ret(m2, 8)
          [] opcode = \h01 ->
                LET r1 == rlc_u8(m, m.cpu.reg_bc.lo)
                    m2 == [r1.m EXCEPT !.cpu.reg_bc.lo = r1.val]
                IN  Ret(m2, 8)
          [] opcode = \h02 ->
                LET r1 == rlc_u8(m, m.cpu.reg_de.hi)
                    m2 == [r1.m EXCEPT !.cpu.reg_de.hi = r1.val]
                IN  Ret(m2, 8)
          [] opcode = \h03 ->
                LET r1 == rlc_u8(m, m.cpu.reg_de.lo)
                    m2 == [r1.m EXCEPT !.cpu.reg_de.lo = r1.val]
                IN  Ret(m2, 8)
          [] opcode = \h04 ->
                LET r1 == rlc_u8(m, m.cpu.reg_hl.hi)
                    m2 == [r1.m EXCEPT !.cpu.reg_hl.hi = r1.val]
                IN  Ret(m2, 8)
          [] opcode = \h05 ->
                LET r1 == rlc_u8(m, m.cpu.reg_hl.lo)
                    m2 == [r1.m EXCEPT !.cpu.reg_hl.lo = r1.val]
                IN  Ret(m2, 8)
          [] opcode = \h08 ->
                LET r1 == rlc_u8(m, m.cpu.reg_af.hi)
                    m2 == [r1.m EXCEPT !.cpu.reg_af.hi = r1.val]
                IN  Ret(m2, 8)
          [] opcode = \h07 -> Undefined(m)
          [] opcode % 8 = 6 -> Ret(m, 16)
          [] OTHER -> Ret(m, 8)

Opcode0x(m, opcode) ==
    CASE opcode = \h00 -> Ret(m, 4)
      [] opcode = \h01 ->
            LET r1 == get_word(m)
                m2 == [r1.m EXCEPT !.cpu.reg_bc = ld_u16_reg_pair(r1.val)]
            IN  Ret(m2, 12)
      [] opcode = \h02 ->
            LET m1 == write_memory(m, get_pair(m.cpu.reg_bc), m.cpu.reg_af.hi)
            IN  Ret(m1, 8)
      [] opcode = \h03 ->
            LET m1 == [m EXCEPT !.cpu.reg_bc = inc_reg_pair(@)]
            IN  Ret(m1, 8)
      [] opcode = \h04 ->
            LET r1 == inc_u8(m, m.cpu.reg_bc.hi)
                m2 == [r1.m EXCEPT !.cpu.reg_bc.hi = r1.val]
            IN  Ret(m2, 4)
      [] opcode = \h05 ->
            LET r1 == dec_u8(m, m.cpu.reg_bc.hi)
                m2 == [r1.m EXCEPT !.cpu.reg_bc.hi = r1.val]
            IN  Ret(m2, 4)
      [] opcode = \h06 ->
            LET r1 == get_byte(m)
                m2 == [r1.m EXCEPT !.cpu.reg_bc.hi = ld_u8_reg(r1.val)]
            IN  Ret(m2, 8)
      [] opcode = \h07 ->
            LET r1 == rlc_u8(m, m.cpu.reg_af.hi)
                m2 == [r1.m EXCEPT !.cpu.reg_af.hi = r1.val]
            IN  Ret(m2, 4)
      [] opcode = \h08 ->
            LET r1 == get_word(m)
                m2 == write_memory(r1.m, r1.val, r1.m.cpu.reg_sp.lo)
                m3 == Checked(m2, r1.val + 1 > 65535)
                m4 == write_memory(m3, Wrap16(r1.val + 1), m3.cpu.reg_sp.hi)
            IN  Ret(m4, 20)
      [] opcode = \h09 ->
            LET bc == get_pair(m.cpu.reg_bc)
                m1 == add_u16_hl(m, bc)
                m2 == [m1 EXCEPT !.cpu.reg_bc = set_pair(bc)]
            IN  Ret(m2, 8)
      [] opcode = \h0A ->
            LET r1 == Read(m, get_pair(m.cpu.reg_bc))
                m2 == [r1.m EXCEPT !.cpu.reg_af.hi = r1.val]
            IN  Ret(m2, 8)
      [] opcode = \h0B ->
            LET val == get_pair(m.cpu.reg_bc)
                m1 == Checked(m, val - 1 < 0)
                m2 == [m1 EXCEPT !.cpu.reg_bc = set_pair(Wrap16(val - 1))]
            IN  Ret(m2, 8)
      [] opcode = \h0C ->
            LET r1 == inc_u8(m, m.cpu.reg_bc.lo)
                m2 == [r1.m EXCEPT !.cpu.reg_bc.lo = r1.val]
            IN  Ret(m2, 4)
      [] opcode = \h0D ->
            LET r1 == dec_u8(m, m.cpu.reg_bc.lo)
                m2 == [r1.m EXCEPT !.cpu.reg_bc.lo = r1.val]
            IN  Ret(m2, 4)
      [] opcode = \h0E ->
            LET r1 == get_byte(m)
                m2 == [r1.m EXCEPT !.cpu.reg_bc.lo = ld_u8_reg(r1.val)]
            IN  Ret(m2, 8)
      [] opcode = \h0F ->
            LET r1 == rrc_u8(m, m.cpu.reg_af.hi)
                m2 == [r1.m EXCEPT !.cpu.reg_af.hi = r1.val]
            IN  Ret(m2, 4)
      [] OTHER -> Undefined(m)

Opcode1x(m, opcode) ==
    CASE opcode = \h10 -> Ret(m, 4)
      [] opcode = \h11 ->
            LET r1 == get_word(m)
                m2 == [r1.m EXCEPT !.cpu.reg_de = ld_u16_reg_pair(r1.val)]
            IN  Ret(m2, 12)
      [] opcode = \h12 ->
            LET m1 == write_memory(m, get_pair(m.cpu.reg_de), m.cpu.reg_af.hi)
            IN  Ret(m1, 8)
      [] opcode = \h13 ->
            LET m1 == [m EXCEPT !.cpu.reg_de = inc_reg_pair(@)]
            IN  Ret(m1, 8)
      [] opcode = \h14 ->
            LET r1 == inc_u8(m, m.cpu.reg_de.hi)
                m2 == [r1.m EXCEPT !.cpu.reg_de.hi = r1.val]
            IN  Ret(m2, 4)
      [] opcode = \h15 ->
            LET r1 == dec_u8(m, m.cpu.reg_de.hi)
                m2 == [r1.m EXCEPT !.cpu.reg_de.hi = r1.val]
            IN  Ret(m2, 4)
      [] opcode = \h16 ->
            LET r1 == get_byte(m)
                m2 == [r1.m EXCEPT !.cpu.reg_de.hi = ld_u8_reg(r1.val)]
            IN  Ret(m2, 8)
      [] opcode = \h17 ->
            LET r1 == rl_u8(m, m.cpu.reg_af.hi)
                m2 == [r1.m EXCEPT !.cpu.reg_af.hi = r1.val]
            IN  Ret(m2, 4)
      [] opcode = \h18 ->
            LET r1 == get_byte(m)
                m2 == [r1.m EXCEPT !.cpu.reg_pc = Wrap16(AsI8(r1.val) + r1.m.cpu.reg_pc)]
            IN  Ret(m2, 12)
      [] opcode = \h19 ->
            LET de == get_pair(m.cpu.reg_de)
                m1 == add_u16_hl(m, de)
                m2 == [m1 EXCEPT !.cpu.reg_de = set_pair(de)]
            IN  Ret(m2, 8)
      [] opcode = \h1A ->
            LET r1 == Read(m, get_pair(m.cpu.reg_de))
                m2 == [r1.m EXCEPT !.cpu.reg_af.hi = r1.val]
            IN  Ret(m2, 8)
      [] opcode = \h1B ->
            LET val == get_pair(m.cpu.reg_de)
                m1 == Checked(m, val - 1 < 0)
                m2 == [m1 EXCEPT !.cpu.reg_de = set_pair(Wrap16(val - 1))]
            IN  Ret(m2, 8)
      [] opcode = \h1C ->
            LET r1 == inc_u8(m, m.cpu.reg_de.lo)
                m2 == [r1.m EXCEPT !.cpu.reg_de.lo = r1.val]
            IN  Ret(m2, 4)
      [] opcode = \h1D ->
            LET r1 == dec_u8(m, m.cpu.reg_de.lo)
                m2 == [r1.m EXCEPT !.cpu.reg_de.lo = r1.val]
            IN  Ret(m2, 4)
      [] opcode = \h1E ->
            LET r1 == get_byte(m)
                m2 == [r1.m EXCEPT !.cpu.reg_de.lo = ld_u8_reg(r1.val)]
            IN  Ret(m2, 8)
      [] opcode = \h1F ->
            LET r1 == rr_u8(m, m.cpu.reg_af.hi)
                m2 == [r1.m EXCEPT !.cpu.reg_af.hi = r1.val]
            IN  Ret(m2, 4)
      [] OTHER -> Undefined(m)

Opcode2x(m, opcode) ==
    CASE opcode = \h20 ->
            IF ~test_bit(m.cpu.reg_af.lo, 7)
            THEN LET r1 == get_byte(m)
                     m2 == [r1.m EXCEPT !.cpu.reg_pc = Wrap16(AsI8(r1.val) + r1.m.cpu.reg_pc)]
                 IN  Ret(m2, 12)
            ELSE LET m1 == AdvancePc(m, 1)
                 IN  Ret(m1, 8)
      [] opcode = \h21 ->
            LET r1 == get_word(m)
                m2 == [r1.m EXCEPT !.cpu.reg_hl = ld_u16_reg_pair(r1.val)]
            IN  Ret(m2, 12)
      [] opcode = \h22 ->
            LET m1 == write_memory(m, get_pair(m.cpu.reg_hl), m.cpu.reg_af.hi)
                m2 == [m1 EXCEPT !.cpu.reg_hl = inc_reg_pair(@)]
            IN  Ret(m2, 8)
      [] opcode = \h23 ->
            LET m1 == [m EXCEPT !.cpu.reg_hl = inc_reg_pair(@)]
            IN  Ret(m1, 8)
      [] opcode = \h24 ->
            LET r1 == inc_u8(m, m.cpu.reg_hl.hi)
                m2 == [r1.m EXCEPT !.cpu.reg_hl.hi = r1.val]
            IN  Ret(m2, 4)
      [] opcode = \h25 ->
            LET r1 == dec_u8(m, m.cpu.reg_hl.hi)
                m2 == [r1.m EXCEPT !.cpu.reg_hl.hi = r1.val]
            IN  Ret(m2, 4)
      [] opcode = \h26 ->
            LET r1 == get_byte(m)
                m2 == [r1.m EXCEPT !.cpu.reg_hl.hi = ld_u8_reg(r1.val)]
            IN  Ret(m2, 8)
      [] opcode = \h27 -> Ret(m, 4)
      [] opcode = \h28 ->
            IF test_bit(m.cpu.reg_af.lo, 7)
            THEN LET r1 == get_byte(m)
                     m2 == [r1.m EXCEPT !.cpu.reg_pc = Wrap16(AsI8(r1.val) + r1.m.cpu.reg_pc)]
                 IN  Ret(m2, 12)
            ELSE LET m1 == AdvancePc(m, 1)
                 IN  Ret(m1, 8)
      [] opcode = \h29 ->
            LET hl == get_pair(m.cpu.reg_hl)
                m1 == add_u16_hl(m, hl)
                m2 == [m1 EXCEPT !.cpu.reg_hl = set_pair(hl)]
            IN  Ret(m2, 8)
      [] opcode = \h2A ->
            LET r1 == Read(m, get_pair(m.cpu.reg_hl))
                m2 == [r1.m EXCEPT !.cpu.reg_af.hi = r1.val]
                m3 == [m2 EXCEPT !.cpu.reg_hl = inc_reg_pair(@)]
            IN  Ret(m3, 8)
      [] opcode = \h2B ->
            LET val == get_pair(m.cpu.reg_hl)
                m1 == Checked(m, val - 1 < 0)
                m2 == [m1 EXCEPT !.cpu.reg_hl = set_pair(Wrap16(val - 1))]
            IN  Ret(m2, 8)
      [] opcode = \h2C ->
            LET r1 == inc_u8(m, m.cpu.reg_hl.lo)
                m2 == [r1.m EXCEPT !.cpu.reg_hl.lo = r1.val]
            IN  Ret(m2, 4)
      [] opcode = \h2D ->
            LET r1 == dec_u8(m, m.cpu.reg_hl.lo)
                m2 == [r1.m EXCEPT !.cpu.reg_hl.lo = r1.val]
            IN  Ret(m2, 4)
      [] opcode = \h2E ->
            LET r1 == get_byte(m)
                m2 == [r1.m EXCEPT !.cpu.reg_hl.lo = ld_u8_reg(r1.val)]
            IN  Ret(m2, 8)
      [] opcode = \h2F ->
            LET m1 == [m EXCEPT !.cpu.reg_af.hi = 255 - m.cpu.reg_af.hi]
                m2 == update_subtract_flag(m1, TRUE)
                m3 == update_half_carry_flag(m2, TRUE)
            IN  Ret(m3, 4)
      [] OTHER -> Undefined(m)

Opcode3x(m, opcode) ==
    CASE opcode = \h30 ->
            IF ~test_bit(m.cpu.reg_af.lo, 4)
            THEN LET r1 == get_byte(m)
                     m2 == [r1.m EXCEPT !.cpu.reg_pc = Wrap16(AsI8(r1.val) + r1.m.cpu.reg_pc)]
                 IN  Ret(m2, 12)
            ELSE LET m1 == AdvancePc(m, 1)
                 IN  Ret(m1, 8)
      [] opcode = \h31 ->
            LET r1 == get_word(m)
                m2 == [r1.m EXCEPT !.cpu.reg_sp = ld_u16_reg_pair(r1.val)]
            IN  Ret(m2, 12)
      [] opcode = \h32 ->
            LET m1 == write_memory(m, get_pair(m.cpu.reg_hl), m.cpu.reg_af.hi)
                m2 == [m1 EXCEPT !.cpu.reg_hl = dec_reg_pair(@)]
            IN  Ret(m2, 8)
      [] opcode = \h33 ->
            LET m1 == [m EXCEPT !.cpu.reg_sp = inc_reg_pair(@)]
            IN  Ret(m1, 8)
      [] opcode = \h34 ->
            LET r1 == Read(m, get_pair(m.cpu.reg_hl))
                r2 == inc_u8(r1.m, r1.val)
            IN  Ret(r2.m, 12)
      [] opcode = \h35 ->
            LET r1 == Read(m, get_pair(m.cpu.reg_hl))
                r2 == dec_u8(r1.m, r1.val)
            IN  Ret(r2.m, 12)
      [] opcode = \h36 ->
            LET r1 == get_byte(m)
                m2 == write_memory(r1.m, get_pair(r1.m.cpu.reg_hl), r1.val)
            IN  Ret(m2, 12)
      [] opcode = \h37 ->
            LET m1 == update_carry_flag(m, TRUE)
                m2 == update_subtract_flag(m1, FALSE)
                m3 == update_half_carry_flag(m2, FALSE)
            IN  Ret(m3, 4)
      [] opcode = \h38 ->
            IF test_bit(m.cpu.reg_af.lo, 4)
            THEN LET r1 == get_byte(m)
                     m2 == [r1.m EXCEPT !.cpu.reg_pc = Wrap16(AsI8(r1.val) + r1.m.cpu.reg_pc)]
                 IN  Ret(m2, 12)
            ELSE LET m1 == AdvancePc(m, 1)
                 IN  Ret(m1, 8)
      [] opcode = \h39 ->
            LET sp == get_pair(m.cpu.reg_sp)
                m1 == add_u16_hl(m, sp)
                m2 == [m1 EXCEPT !.cpu.reg_sp = set_pair(sp)]
            IN  Ret(m2, 8)
      [] opcode = \h3A ->
            LET r1 == Read(m, get_pair(m.cpu.reg_hl))
                m2 == [r1.m EXCEPT !.cpu.reg_af.hi = r1.val]
                m3 == [m2 EXCEPT !.cpu.reg_hl = dec_reg_pair(@)]
            IN  Ret(m3, 8)
      [] opcode = \h3B ->
            LET val == get_pair(m.cpu.reg_sp)
                m1 == Checked(m, val - 1 < 0)
                m2 == [m1 EXCEPT !.cpu.reg_sp = set_pair(Wrap16(val - 1))]
            IN  Ret(m2, 8)
      [] opcode = \h3C ->
            LET r1 == inc_u8(m, m.cpu.reg_af.hi)
                m2 == [r1.m EXCEPT !.cpu.reg_af.hi = r1.val]
            IN  Ret(m2, 4)
      [] opcode = \h3D ->
            LET r1 == dec_u8(m, m.cpu.reg_af.hi)
                m2 == [r1.m EXCEPT !.cpu.reg_af.hi = r1.val]
            IN  Ret(m2, 4)
      [] opcode = \h3E ->
            LET r1 == get_byte(m)
                m2 == [r1.m EXCEPT !.cpu.reg_af.hi = ld_u8_reg(r1.val)]
            IN  Ret(m2, 8)
      [] opcode = \h3F ->
            LET carry_set == test_bit(m.cpu.reg_af.lo, 4)
                m1 == update_carry_flag(m, ~carry_set)
                m2 == update_subtract_flag(m1, FALSE)
                m3 == update_half_carry_flag(m2, FALSE)
            IN  Ret(m3, 4)
      [] OTHER -> Undefined(m)

Opcode4x(m, opcode) ==
    CASE opcode = \h40 -> Ret(m, 4)
      [] opcode = \h41 ->
            LET m1 == [m EXCEPT !.cpu.reg_bc.hi = ld_u8_reg(m.cpu.reg_bc.lo)]
            IN  Ret(m1, 4)
      [] opcode = \h42 ->
            LET m1 == [m EXCEPT !.cpu.reg_bc.hi = ld_u8_reg(m.cpu.reg_de.hi)]
            IN  Ret(m1, 4)
      [] opcode = \h43 ->
            LET m1 == [m EXCEPT !.cpu.reg_bc.hi = ld_u8_reg(m.cpu.reg_de.lo)]
            IN  Ret(m1, 4)
      [] opcode = \h44 ->
            LET m1 == [m EXCEPT !.cpu.reg_bc.hi = ld_u8_reg(m.cpu.reg_hl.hi)]
            IN  Ret(m1, 4)
      [] opcode = \h45 ->
            LET m1 == [m EXCEPT !.cpu.reg_bc.hi = ld_u8_reg(m.cpu.reg_de.lo)]
            IN  Ret(m1, 4)
      [] opcode = \h46 ->
            LET r1 == Read(m, get_pair(m.cpu.reg_hl))
                m2 == [r1.m EXCEPT !.cpu.reg_bc.hi = ld_u8_reg(r1.val)]
            IN  Ret(m2, 8)
      [] opcode = \h47 ->
            LET m1 == [m EXCEPT !.cpu.reg_bc.hi = ld_u8_reg(m.cpu.reg_af.hi)]
            IN  Ret(m1, 4)
      [] opcode = \h48 ->
            LET m1 == [m EXCEPT !.cpu.reg_bc.lo = ld_u8_reg(m.cpu.reg_bc.hi)]
            IN  Ret(m1, 4)
      [] opcode = \h49 -> Ret(m, 4)
      [] opcode = \h4A ->
            LET m1 == [m EXCEPT !.cpu.reg_bc.lo = ld_u8_reg(m.cpu.reg_de.hi)]
            IN  Ret(m1, 4)
      [] opcode = \h4B ->
            LET m1 == [m EXCEPT !.cpu.reg_bc.lo = ld_u8_reg(m.cpu.reg_de.lo)]
            IN  Ret(m1, 4)
      [] opcode = \h4C ->
            LET m1 == [m EXCEPT !.cpu.reg_bc.lo = ld_u8_reg(m.cpu.reg_hl.hi)]
            IN  Ret(m1, 4)
      [] opcode = \h4D ->
            LET m1 == [m EXCEPT !.cpu.reg_bc.lo = ld_u8_reg(m.cpu.reg_de.lo)]
            IN  Ret(m1, 4)
      [] opcode = \h4E ->
            LET r1 == Read(m, get_pair(m.cpu.reg_hl))
                m2 == [r1.m EXCEPT !.cpu.reg_bc.lo = ld_u8_reg(r1.val)]
            IN  Ret(m2, 4)
      [] opcode = \h4F ->
            LET m1 == [m EXCEPT !.cpu.reg_bc.lo = ld_u8_reg(m.cpu.reg_af.hi)]
            IN  Ret(m1, 4)
      [] OTHER -> Undefined(m)

Opcode5x(m, opcode) ==
    CASE opcode = \h50 ->
            LET m1 == [m EXCEPT !.cpu.reg_de.hi = ld_u8_reg(m.cpu.reg_bc.hi)]
            IN  Ret(m1, 4)
      [] opcode = \h51 ->
            LET m1 == [m EXCEPT !.cpu.reg_de.hi = ld_u8_reg(m.cpu.reg_bc.lo)]
            IN  Ret(m1, 4)
      [] opcode = \h52 -> Ret(m, 4)
      [] opcode = \h53 ->
            LET m1 == [m EXCEPT !.cpu.reg_de.hi = ld_u8_reg(m.cpu.reg_de.lo)]
            IN  Ret(m1, 4)
      [] opcode = \h54 ->
            LET m1 == [m EXCEPT !.cpu.reg_de.hi = ld_u8_reg(m.cpu.reg_hl.hi)]
            IN  Ret(m1, 4)
      [] opcode = \h55 ->
            LET m1 == [m EXCEPT !.cpu.reg_de.hi = ld_u8_reg(m.cpu.reg_hl.lo)]
            IN  Ret(m1, 4)
      [] opcode = \h56 ->
            LET r1 == Read(m, get_pair(m.cpu.reg_hl))
                m2 == [r1.m EXCEPT !.cpu.reg_de.hi = ld_u8_reg(r1.val)]
            IN  Ret(m2, 8)
      [] opcode = \h57 ->
            LET m1 == [m EXCEPT !.cpu.reg_de.hi = ld_u8_reg(m.cpu.reg_af.hi)]
            IN  Ret(m1, 4)
      [] opcode = \h58 ->
            LET m1 == [m EXCEPT !.cpu.reg_de.lo = ld_u8_reg(m.cpu.reg_bc.hi)]
            IN  Ret(m1, 4)
      [] opcode = \h59 ->
            LET m1 == [m EXCEPT !.cpu.reg_de.lo = ld_u8_reg(m.cpu.reg_bc.lo)]
            IN  Ret(m1, 4)
      [] opcode = \h5A ->
            LET m1 == [m EXCEPT !.cpu.reg_de.lo = ld_u8_reg(m.cpu.reg_de.hi)]
            IN  Ret(m1, 4)
      [] opcode = \h5B -> Ret(m, 4)
      [] opcode = \h5C ->
            LET m1 == [m EXCEPT !.cpu.reg_de.lo = ld_u8_reg(m.cpu.reg_hl.hi)]
            IN  Ret(m1, 4)
      [] opcode = \h5D ->
            LET m1 == [m EXCEPT !.cpu.reg_de.lo = ld_u8_reg(m.cpu.reg_hl.lo)]
            IN  Ret(m1, 4)
      [] opcode = \h5E ->
            LET r1 == Read(m, get_pair(m.cpu.reg_hl))
                m2 == [r1.m EXCEPT !.cpu.reg_de.lo = ld_u8_reg(r1.val)]
            IN  Ret(m2, 8)
      [] opcode = \h5F ->
            LET m1 == [m EXCEPT !.cpu.reg_de.lo = ld_u8_reg(m.cpu.reg_af.hi)]
            IN  Ret(m1, 4)
      [] OTHER -> Undefined(m)

Opcode6x(m, opcode) ==
    CASE opcode = \h60 ->
            LET m1 == [m EXCEPT !.cpu.reg_hl.hi = ld_u8_reg(m.cpu.reg_bc.hi)]
            IN  Ret(m1, 4)
      [] opcode = \h61 ->
            LET m1 == [m EXCEPT !.cpu.reg_hl.hi = ld_u8_reg(m.cpu.reg_bc.lo)]
            IN  Ret(m1, 4)
      [] opcode = \h62 ->
            LET m1 == [m EXCEPT !.cpu.reg_hl.hi = ld_u8_reg(m.cpu.reg_de.hi)]
            IN  Ret(m1, 4)
      [] opcode = \h63 ->
            LET m1 == [m EXCEPT !.cpu.reg_hl.hi = ld_u8_reg(m.cpu.reg_de.lo)]
            IN  Ret(m1, 4)
      [] opcode = \h64 -> Ret(m, 4)
      [] opcode = \h65 ->
            LET m1 == [m EXCEPT !.cpu.reg_hl.hi = ld_u8_reg(m.cpu.reg_hl.lo)]
            IN  Ret(m1, 4)
      [] opcode = \h66 ->
            LET r1 == Read(m, get_pair(m.cpu.reg_hl))
                m2 == [r1.m EXCEPT !.cpu.reg_hl.hi = ld_u8_reg(r1.val)]
            IN  Ret(m2, 8)
      [] opcode = \h67 ->
            LET m1 == [m EXCEPT !.cpu.reg_hl.hi = ld_u8_reg(m.cpu.reg_af.hi)]
            IN  Ret(m1, 4)
      [] opcode = \h68 ->
            LET m1 == [m EXCEPT !.cpu.reg_hl.lo = ld_u8_reg(m.cpu.reg_bc.hi)]
            IN  Ret(m1, 4)
      [] opcode = \h69 ->
            LET m1 == [m EXCEPT !.cpu.reg_hl.lo = ld_u8_reg(m.cpu.reg_bc.lo)]
            IN  Ret(m1, 4)
      [] opcode = \h6A ->
            LET m1 == [m EXCEPT !.cpu.reg_hl.lo = ld_u8_reg(m.cpu.reg_de.hi)]
            IN  Ret(m1, 4)
      [] opcode = \h6B ->
            LET m1 == [m EXCEPT !.cpu.reg_hl.lo = ld_u8_reg(m.cpu.reg_de.lo)]
            IN  Ret(m1, 4)
      [] opcode = \h6C ->
            LET m1 == [m EXCEPT !.cpu.reg_hl.lo = ld_u8_reg(m.cpu.reg_hl.hi)]
            IN  Ret(m1, 4)
      [] opcode = \h6D -> Ret(m, 4)
      [] opcode = \h6E ->
            LET r1 == Read(m, get_pair(m.cpu.reg_hl))
                m2 == [r1.m EXCEPT !.cpu.reg_hl.lo = ld_u8_reg(r1.val)]
            IN  Ret(m2, 8)
      [] opcode = \h6F ->
            LET m1 == [m EXCEPT !.cpu.reg_hl.lo = ld_u8_reg(m.cpu.reg_af.hi)]
            IN  Ret(m1, 4)
      [] OTHER -> Undefined(m)

Opcode7x(m, opcode) ==
    CASE opcode = \h70 ->
            LET m1 == write_memory(m, get_pair(m.cpu.reg_hl), m.cpu.reg_bc.hi)
            IN  Ret(m1, 8)
      [] opcode = \h71 ->
            LET m1 == write_memory(m, get_pair(m.cpu.reg_hl), m.cpu.reg_bc.lo)
            IN  Ret(m1, 8)
      [] opcode = \h72 ->
            LET m1 == write_memory(m, get_pair(m.cpu.reg_hl), m.cpu.reg_de.hi)
            IN  Ret(m1, 8)
      [] opcode = \h73 ->
            LET m1 == write_memory(m, get_pair(m.cpu.reg_hl), m.cpu.reg_de.lo)
            IN  Ret(m1, 8)
      [] opcode = \h74 ->
            LET m1 == write_memory(m, get_pair(m.cpu.reg_hl), m.cpu.reg_hl.hi)
            IN  Ret(m1, 8)
      [] opcode = \h75 ->
            LET m1 == write_memory(m, get_pair(m.cpu.reg_hl), m.cpu.reg_hl.lo)
            IN  Ret(m1, 8)
      [] opcode = \h76 ->
            LET m1 == [m EXCEPT !.cpu.halted = TRUE]
            IN  Ret(m1, 4)
      [] opcode = \h77 ->
            LET m1 == write_memory(m, get_pair(m.cpu.reg_hl), m.cpu.reg_af.hi)
            IN  Ret(m1, 8)
      [] opcode = \h78 ->
            LET m1 == [m EXCEPT !.cpu.reg_af.hi = ld_u8_reg(m.cpu.reg_bc.hi)]
            IN  Ret(m1, 4)
      [] opcode = \h79 ->
            LET m1 == [m EXCEPT !.cpu.reg_af.hi = ld_u8_reg(m.cpu.reg_bc.lo)]
            IN  Ret(m1, 4)
      [] opcode = \h7A ->
            LET m1 == [m EXCEPT !.cpu.reg_af.hi = ld_u8_reg(m.cpu.reg_de.hi)]
            IN  Ret(m1, 4)
      [] opcode = \h7B ->
            LET m1 == [m EXCEPT !.cpu.reg_af.hi = ld_u8_reg(m.cpu.reg_de.lo)]
            IN  Ret(m1, 4)
      [] opcode = \h7C ->
            LET m1 == [m EXCEPT !.cpu.reg_af.hi = ld_u8_reg(m.cpu.reg_hl.hi)]
            IN  Ret(m1, 4)
      [] opcode = \h7D ->
            LET m1 == [m EXCEPT !.cpu.reg_af.hi = ld_u8_reg(m.cpu.reg_hl.lo)]
            IN  Ret(m1, 4)
      [] opcode = \h7E ->
            LET r1 == Read(m, get_pair(m.cpu.reg_hl))
                m2 == [r1.m EXCEPT !.cpu.reg_af.hi = ld_u8_reg(r1.val)]
            IN  Ret(m2, 8)
      [] opcode = \h7F -> Ret(m, 4)
      [] OTHER -> Undefined(m)

Opcode8x(m, opcode) ==
    CASE opcode = \h80 ->
            LET m1 == add_u8_a(m, m.cpu.reg_bc.hi)
            IN  Ret(m1, 4)
      [] opcode = \h81 ->
            LET m1 == add_u8_a(m, m.cpu.reg_bc.lo)
            IN  Ret(m1, 4)
      [] opcode = \h82 ->
            LET m1 == add_u8_a(m, m.cpu.reg_de.hi)
            IN  Ret(m1, 4)
      [] opcode = \h83 ->
            LET m1 == add_u8_a(m, m.cpu.reg_de.lo)
            IN  Ret(m1, 4)
      [] opcode = \h84 ->
            LET m1 == add_u8_a(m, m.cpu.reg_hl.hi)
            IN  Ret(m1, 4)
      [] opcode = \h85 ->
            LET m1 == add_u8_a(m, m.cpu.reg_hl.lo)
            IN  Ret(m1, 4)
      [] opcode = \h86 ->
            LET r1 == Read(m, get_pair(m.cpu.reg_hl))
                m2 == add_u8_a(r1.m, r1.val)
            IN  Ret(m2, 8)
      [] opcode = \h87 ->
            LET m1 == add_u8_a(m, m.cpu.reg_af.hi)
            IN  Ret(m1, 4)
      [] opcode = \h88 ->
            LET m1 == adc_reg_a(m, m.cpu.reg_bc.hi)
            IN  Ret(m1, 4)
      [] opcode = \h89 ->
            LET m1 == adc_reg_a(m, m.cpu.reg_bc.lo)
            IN  Ret(m1, 4)
      [] opcode = \h8A ->
            LET m1 == adc_reg_a(m, m.cpu.reg_de.hi)
            IN  Ret(m1, 4)
      [] opcode = \h8B ->
            LET m1 == adc_reg_a(m, m.cpu.reg_de.lo)
            IN  Ret(m1, 4)
      [] opcode = \h8C ->
            LET m1 == adc_reg_a(m, m.cpu.reg_hl.hi)
            IN  Ret(m1, 4)
      [] opcode = \h8D ->
            LET m1 == adc_reg_a(m, m.cpu.reg_hl.lo)
            IN  Ret(m1, 4)
      [] opcode = \h8E ->
            LET r1 == Read(m, get_pair(m.cpu.reg_hl))
                m2 == adc_reg_a(r1.m, r1.val)
            IN  Ret(m2, 8)
      [] opcode = \h8F ->
            LET m1 == adc_reg_a(m, m.cpu.reg_af.hi)
            IN  Ret(m1, 4)
      [] OTHER -> Undefined(m)

Opcode9x(m, opcode) ==
    CASE opcode = \h90 ->
            LET m1 == sub_u8_a(m, m.cpu.reg_bc.hi)
            IN  Ret(m1, 4)
      [] opcode = \h91 ->
            LET m1 == sub_u8_a(m, m.cpu.reg_bc.lo)
            IN  Ret(m1, 4)
      [] opcode = \h92 ->
            LET m1 == sub_u8_a(m, m.cpu.reg_de.hi)
            IN  Ret(m1, 4)
      [] opcode = \h93 ->
            LET m1 == sub_u8_a(m, m.cpu.reg_de.lo)
            IN  Ret(m1, 4)
      [] opcode = \h94 ->
            LET m1 == sub_u8_a(m, m.cpu.reg_hl.hi)
            IN  Ret(m1, 4)
      [] opcode = \h95 ->
            LET m1 == sub_u8_a(m, m.cpu.reg_hl.lo)
            IN  Ret(m1, 4)
      [] opcode = \h96 ->
            LET r1 == Read(m, get_pair(m.cpu.reg_hl))
                m2 == sub_u8_a(r1.m, r1.val)
            IN  Ret(m2, 8)
      [] opcode = \h97 ->
            LET m1 == sub_u8_a(m, m.cpu.reg_af.hi)
            IN  Ret(m1, 4)
      [] opcode = \h98 ->
            LET m1 == sbc_reg_a(m, m.cpu.reg_bc.hi)
            IN  Ret(m1, 4)
      [] opcode = \h99 ->
            LET m1 == sbc_reg_a(m, m.cpu.reg_bc.lo)
            IN  Ret(m1, 4)
      [] opcode = \h9A ->
            LET m1 == sbc_reg_a(m, m.cpu.reg_de.hi)
            IN  Ret(m1, 4)
      [] opcode = \h9B ->
            LET m1 == sbc_reg_a(m, m.cpu.reg_de.lo)
            IN  Ret(m1, 4)
      [] opcode = \h9C ->
            LET m1 == sbc_reg_a(m, m.cpu.reg_hl.hi)
            IN  Ret(m1, 4)
      [] opcode = \h9D ->
            LET m1 == sbc_reg_a(m, m.cpu.reg_hl.lo)
            IN  Ret(m1, 4)
      [] opcode = \h9E ->
            LET r1 == Read(m, get_pair(m.cpu.reg_hl))
                m2 == sbc_reg_a(r1.m, r1.val)
            IN  Ret(m2, 8)
      [] opcode = \h9F ->
            LET m1 == sbc_reg_a(m, m.cpu.reg_af.hi)
            IN  Ret(m1, 4)
      [] OTHER -> Undefined(m)

OpcodeAx(m, opcode) ==
    CASE opcode = \hA0 ->
            LET m1 == and_reg_a(m, m.cpu.reg_bc.hi)
            IN  Ret(m1, 4)
      [] opcode = \hA1 ->
            LET m1 == and_reg_a(m, m.cpu.reg_bc.lo)
            IN  Ret(m1, 4)
      [] opcode = \hA2 ->
            LET m1 == and_reg_a(m, m.cpu.reg_de.hi)
            IN  Ret(m1, 4)
      [] opcode = \hA3 ->
            LET m1 == and_reg_a(m, m.cpu.reg_de.lo)
            IN  Ret(m1, 4)
      [] opcode = \hA4 ->
            LET m1 == and_reg_a(m, m.cpu.reg_hl.hi)
            IN  Ret(m1, 4)
      [] opcode = \hA5 ->
            LET m1 == and_reg_a(m, m.cpu.reg_hl.lo)
            IN  Ret(m1, 4)
      [] opcode = \hA6 ->
            LET r1 == Read(m, get_pair(m.cpu.reg_hl))
                m2 == and_reg_a(r1.m, r1.val)
            IN  Ret(m2, 8)
      [] opcode = \hA7 ->
            LET m1 == and_reg_a(m, m.cpu.reg_af.hi)
            IN  Ret(m1, 4)
      [] opcode = \hA8 ->
            LET m1 == xor_reg_a(m, m.cpu.reg_bc.hi)
            IN  Ret(m1, 4)
      [] opcode = \hA9 ->
            LET m1 == xor_reg_a(m, m.cpu.reg_bc.lo)
            IN  Ret(m1, 4)
      [] opcode = \hAA ->
            LET m1 == xor_reg_a(m, m.cpu.reg_de.hi)
            IN  Ret(m1, 4)
      [] opcode = \hAB ->
            LET m1 == xor_reg_a(m, m.cpu.reg_de.lo)
            IN  Ret(m1, 4)
      [] opcode = \hAC ->
            LET m1 == xor_reg_a(m, m.cpu.reg_hl.hi)
            IN  Ret(m1, 4)
      [] opcode = \hAD ->
            LET m1 == xor_reg_a(m, m.cpu.reg_hl.lo)
            IN  Ret(m1, 4)
      [] opcode = \hAE ->
            LET r1 == Read(m, get_pair(m.cpu.reg_hl))
                m2 == xor_reg_a(r1.m, r1.val)
            IN  Ret(m2, 8)
      [] opcode = \hAF ->
            LET m1 == xor_reg_a(m, m.cpu.reg_af.hi)
            IN  Ret(m1, 4)
      [] OTHER -> Undefined(m)

OpcodeBx(m, opcode) ==
    CASE opcode = \hB0 ->
            LET m1 == or_reg_a(m, m.cpu.reg_bc.hi)
            IN  Ret(m1, 4)
      [] opcode = \hB1 ->
            LET m1 == or_reg_a(m, m.cpu.reg_bc.lo)
            IN  Ret(m1, 4)
      [] opcode = \hB2 ->
            LET m1 == or_reg_a(m, m.cpu.reg_de.hi)
            IN  Ret(m1, 4)
      [] opcode = \hB3 ->
            LET m1 == or_reg_a(m, m.cpu.reg_de.lo)
            IN  Ret(m1, 4)
      [] opcode = \hB4 ->
            LET m1 == or_reg_a(m, m.cpu.reg_hl.hi)
            IN  Ret(m1, 4)
      [] opcode = \hB5 ->
            LET m1 == or_reg_a(m, m.cpu.reg_hl.lo)
            IN  Ret(m1, 4)
      [] opcode = \hB6 ->
            LET r1 == Read(m, get_pair(m.cpu.reg_hl))
                m2 == or_reg_a(r1.m, r1.val)
            IN  Ret(m2, 8)
      [] opcode = \hB7 ->
            LET m1 == or_reg_a(m, m.cpu.reg_af.hi)
            IN  Ret(m1, 4)
      [] opcode = \hB8 ->
            LET m1 == cp_reg_a(m, m.cpu.reg_bc.hi)
            IN  Ret(m1, 4)
      [] opcode = \hB9 ->
            LET m1 == cp_reg_a(m, m.cpu.reg_bc.lo)
            IN  Ret(m1, 4)
      [] opcode = \hBA ->
            LET m1 == cp_reg_a(m, m.cpu.reg_de.hi)
            IN  Ret(m1, 4)
      [] opcode = \hBB ->
            LET m1 == cp_reg_a(m, m.cpu.reg_de.lo)
            IN  Ret(m1, 4)
      [] opcode = \hBC ->
            LET m1 == cp_reg_a(m, m.cpu.reg_hl.hi)
            IN  Ret(m1, 4)
      [] opcode = \hBD ->
            LET m1 == cp_reg_a(m, m.cpu.reg_hl.lo)
            IN  Ret(m1, 4)
      [] opcode = \hBE ->
            LET r1 == Read(m, get_pair(m.cpu.reg_hl))
                m2 == cp_reg_a(r1.m, r1.val)
            IN  Ret(m2, 8)
      [] opcode = \hBF ->
            LET m1 == cp_reg_a(m, m.cpu.reg_af.hi)
            IN  Ret(m1, 4)
      [] OTHER -> Undefined(m)

OpcodeCx(m, opcode) ==
    CASE opcode = \hC0 ->
            IF ~test_bit(m.cpu.reg_af.lo, 7)
            THEN LET r1 == stack_pop(m)
                     m2 == [r1.m EXCEPT !.cpu.reg_pc = r1.val]
                 IN  Ret(m2, 20)
            ELSE Ret(m, 8)
      [] opcode = \hC1 ->
            LET r1 == stack_pop(m)
                m2 == [r1.m EXCEPT !.cpu.reg_bc = set_pair(r1.val)]
            IN  Ret(m2, 12)
      [] opcode = \hC2 ->
            IF ~test_bit(m.cpu.reg_af.lo, 7)
            THEN LET r1 == get_word(m)
                     m2 == [r1.m EXCEPT !.cpu.reg_pc = r1.val]
                 IN  Ret(m2, 16)
            ELSE LET m1 == AdvancePc(m, 2)
                 IN  Ret(m1, 12)
      [] opcode = \hC3 ->
            LET r1 == get_word(m)
                m2 == [r1.m EXCEPT !.cpu.reg_pc = r1.val]
            IN  Ret(m2, 16)
      [] opcode = \hC4 ->
            IF ~test_bit(m.cpu.reg_af.lo, 7)
            THEN LET m1 == Checked(m, m.cpu.reg_pc + 2 > 65535)
                     m2 == stack_push(m1, Wrap16(m.cpu.reg_pc + 2))
                     r3 == get_word(m2)
                     m4 == [r3.m EXCEPT !.cpu.reg_pc = r3.val]
                 IN  Ret(m4, 24)
            ELSE LET m1 == AdvancePc(m, 2)
                 IN  Ret(m1, 12)
      [] opcode = \hC5 ->
            LET val == get_pair(m.cpu.reg_bc)
                m1 == stack_push(m, val)
            IN  Ret(m1, 16)
      [] opcode = \hC6 ->
            LET r1 == get_byte(m)
                m2 == add_u8_a(r1.m, r1.val)
            IN  Ret(m2, 8)
      [] opcode = \hC7 ->
            LET m1 == call_routine(m, \h0000)
            IN  Ret(m1, 16)
      [] opcode = \hC8 ->
            IF test_bit(m.cpu.reg_af.lo, 7)
            THEN LET r1 == stack_pop(m)
                     m2 == [r1.m EXCEPT !.cpu.reg_pc = r1.val]
                 IN  Ret(m2, 20)
            ELSE Ret(m, 8)
      [] opcode = \hC9 ->
            LET r1 == stack_pop(m)
                m2 == [r1.m EXCEPT !.cpu.reg_pc = r1.val]
            IN  Ret(m2, 16)
      [] opcode = \hCA ->
            IF test_bit(m.cpu.reg_af.lo, 7)
            THEN LET r1 == get_word(m)
                     m2 == [r1.m EXCEPT !.cpu.reg_pc = r1.val]
                 IN  Ret(m2, 16)
            ELSE LET m1 == AdvancePc(m, 2)
                 IN  Ret(m1, 12)
      [] opcode = \hCB -> extended_instruction(m)
      [] opcode = \hCC ->
            IF test_bit(m.cpu.reg_af.lo, 7)
            THEN LET m1 == Checked(m, m.cpu.reg_pc + 2 > 65535)
                     m2 == stack_push(m1, Wrap16(m.cpu.reg_pc + 2))
                     r3 == get_word(m2)
                     m4 == [r3.m EXCEPT !.cpu.reg_pc = r3.val]
                 IN  Ret(m4, 24)
            ELSE LET m1 == AdvancePc(m, 2)
                 IN  Ret(m1, 12)
      [] opcode = \hCD ->
            LET m1 == Checked(m, m.cpu.reg_pc + 2 > 65535)
                m2 == stack_push(m1, Wrap16(m.cpu.reg_pc + 2))
                r3 == get_word(m2)
                m4 == [r3.m EXCEPT !.cpu.reg_pc = r3.val]
            IN  Ret(m4, 24)
      [] opcode = \hCE ->
            LET r1 == get_byte(m)
                m2 == adc_reg_a(r1.m, r1.val)
            IN  Ret(m2, 8)
      [] opcode = \hCF ->
            LET m1 == call_routine(m, \h0008)
            IN  Ret(m1, 16)
      [] OTHER -> Undefined(m)

OpcodeDx(m, opcode) ==
    CASE opcode = \hD0 ->
            IF ~test_bit(m.cpu.reg_af.lo, 4)
            THEN LET r1 == stack_pop(m)
                     m2 == [r1.m EXCEPT !.cpu.reg_pc = r1.val]
                 IN  Ret(m2, 20)
            ELSE Ret(m, 8)
      [] opcode = \hD1 ->
            LET r1 == stack_pop(m)
                m2 == [r1.m EXCEPT !.cpu.reg_de = set_pair(r1.val)]
            IN  Ret(m2, 12)
      [] opcode = \hD2 ->
            IF ~test_bit(m.cpu.reg_af.lo, 4)
            THEN LET r1 == get_word(m)
                     m2 == [r1.m EXCEPT !.cpu.reg_pc = r1.val]
                 IN  Ret(m2, 16)
            ELSE LET m1 == AdvancePc(m, 2)
                 IN  Ret(m1, 12)
      [] opcode = \hD4 ->
            IF ~test_bit(m.cpu.reg_af.lo, 4)
            THEN LET m1 == Checked(m, m.cpu.reg_pc + 2 > 65535)
                     m2 == stack_push(m1, Wrap16(m.cpu.reg_pc + 2))
                     r3 == get_word(m2)
                     m4 == [r3.m EXCEPT !.cpu.reg_pc = r3.val]
                 IN  Ret(m4, 24)
            ELSE LET m1 == AdvancePc(m, 2)
                 IN  Ret(m1, 12)
      [] opcode = \hD5 ->
            LET val == get_pair(m.cpu.reg_de)
                m1 == stack_push(m, val)
            IN  Ret(m1, 16)
      [] opcode = \hD6 ->
            LET r1 == get_byte(m)
                m2 == sub_u8_a(r1.m, r1.val)
            IN  Ret(m2, 8)
      [] opcode = \hD7 ->
            LET m1 == call_routine(m, \h0010)
            IN  Ret(m1, 16)
      [] opcode = \hD8 ->
            IF test_bit(m.cpu.reg_af.lo, 4)
            THEN LET r1 == stack_pop(m)
                     m2 == [r1.m EXCEPT !.cpu.reg_pc = r1.val]
                 IN  Ret(m2, 20)
            ELSE Ret(m, 8)
      [] opcode = \hD9 ->
            LET m1 == [m EXCEPT !.cpu.interrupts_enabled = TRUE]
                r2 == stack_pop(m1)
                m3 == [r2.m EXCEPT !.cpu.reg_pc = r2.val]
            IN  Ret(m3, 16)
      [] opcode = \hDA ->
            IF test_bit(m.cpu.reg_af.lo, 4)
            THEN LET r1 == get_word(m)
                     m2 == [r1.m EXCEPT !.cpu.reg_pc = r1.val]
                 IN  Ret(m2, 16)
            ELSE LET m1 == AdvancePc(m, 2)
                 IN  Ret(m1, 12)
      [] opcode = \hDC ->
            IF test_bit(m.cpu.reg_af.lo, 4)
            THEN LET m1 == Checked(m, m.cpu.reg_pc + 2 > 65535)
                     m2 == stack_push(m1, Wrap16(m.cpu.reg_pc + 2))
                     r3 == get_word(m2)
                     m4 == [r3.m EXCEPT !.cpu.reg_pc = r3.val]
                 IN  Ret(m4, 24)
            ELSE LET m1 == AdvancePc(m, 2)
                 IN  Ret(m1, 12)
      [] opcode = \hDE ->
            LET r1 == get_byte(m)
                m2 == sbc_reg_a(r1.m, r1.val)
            IN  Ret(m2, 8)
      [] opcode = \hDF ->
            LET m1 == call_routine(m, \h0018)
            IN  Ret(m1, 16)
      [] OTHER -> Undefined(m)

OpcodeEx(m, opcode) ==
    CASE opcode = \hE0 ->
            LET r1 == get_byte(m)
                address == BitOr(r1.val, \hFF00)
                m2 == write_memory(r1.m, address, r1.m.cpu.reg_af.hi)
            IN  Ret(m2, 12)
      [] opcode = \hE1 ->
            LET r1 == stack_pop(m)
                m2 == [r1.m EXCEPT !.cpu.reg_hl = set_pair(r1.val)]
            IN  Ret(m2, 12)
      [] opcode = \hE2 ->
            LET address == BitOr(m.cpu.reg_bc.lo, \hFF00)
                m1 == write_memory(m, address, m.cpu.reg_af.hi)
            IN  Ret(m1, 8)
      [] opcode = \hE5 ->
            LET val == get_pair(m.cpu.reg_hl)
                m1 == stack_push(m, val)
            IN  Ret(m1, 16)
      [] opcode = \hE6 ->
            LET r1 == get_byte(m)
                m2 == and_reg_a(r1.m, r1.val)
            IN  Ret(m2, 8)
      [] opcode = \hE7 ->
            LET m1 == call_routine(m, \h0020)
            IN  Ret(m1, 16)
      [] opcode = \hE8 ->
            LET r1 == get_byte(m)
                byte == Wrap16(AsI8(r1.val))
                sp == get_pair(r1.m.cpu.reg_sp)
                m2 == [r1.m EXCEPT !.cpu.reg_sp = set_pair(Wrap16(sp + byte))]
                m3 == update_half_carry_flag(m2, BitAnd(byte, \h000F) + BitAnd(sp, \h000F) > \h000F)
                m4 == update_carry_flag(m3, BitAnd(byte, \h00FF) + BitAnd(sp, \h00FF) > \h00FF)
                m5 == update_zero_flag(m4, 1)
                m6 == update_subtract_flag(m5, FALSE)
            IN  Ret(m6, 16)
      [] opcode = \hE9 ->
            LET m1 == [m EXCEPT !.cpu.reg_pc = get_pair(m.cpu.reg_hl)]
            IN  Ret(m1, 4)
      [] opcode = \hEA ->
            LET r1 == get_word(m)
                m2 == write_memory(r1.m, r1.val, r1.m.cpu.reg_af.hi)
            IN  Ret(m2, 16)
      [] opcode = \hEE ->
            LET r1 == get_byte(m)
                m2 == xor_reg_a(r1.m, r1.val)
            IN  Ret(m2, 8)
      [] opcode = \hEF ->
            LET m1 == call_routine(m, \h0028)
            IN  Ret(m1, 16)
      [] OTHER -> Undefined(m)

OpcodeFx(m, opcode) ==
    CASE opcode = \hF0 ->
            LET r1 == get_byte(m)
                address == BitOr(r1.val, \hFF00)
                r2 == Read(r1.m, address)
                m3 == [r2.m EXCEPT !.cpu.reg_af.hi = r2.val]
            IN  Ret(m3, 12)
      [] opcode = \hF1 ->
            LET r1 == stack_pop(m)
                val == BitAnd(r1.val, \hFFF0)
                m2 == [r1.m EXCEPT !.cpu.reg_af = set_pair(val)]
            IN  Ret(m2, 12)
      [] opcode = \hF2 ->
            LET address == BitOr(m.cpu.reg_bc.lo, \hFF00)
                r1 == Read(m, address)
                m2 == [r1.m EXCEPT !.cpu.reg_af.hi = r1.val]
            IN  Ret(m2, 8)
      [] opcode = \hF3 ->
            LET m1 == [m EXCEPT !.cpu.interrupts_enabled = FALSE]
            IN  Ret(m1, 4)
      [] opcode = \hF5 ->
            LET val == get_pair(m.cpu.reg_af)
                m1 == stack_push(m, val)
            IN  Ret(m1, 16)
      [] opcode = \hF6 ->
            LET r1 == get_byte(m)
                m2 == or_reg_a(r1.m, r1.val)
            IN  Ret(m2, 8)
      [] opcode = \hF7 ->
            LET m1 == call_routine(m, \h0030)
            IN  Ret(m1, 16)
      [] opcode = \hF8 ->
            LET r1 == get_byte(m)
                byte == Wrap16(AsI8(r1.val))
                sp == get_pair(r1.m.cpu.reg_sp)
                m2 == [r1.m EXCEPT !.cpu.reg_hl = set_pair(Wrap16(sp + byte))]
                m3 == update_half_carry_flag(m2, BitAnd(byte, \h000F) + BitAnd(sp, \h000F) > \h000F)
                m4 == update_carry_flag(m3, BitAnd(byte, \h00FF) + BitAnd(sp, \h00FF) > \h00FF)
                m5 == update_zero_flag(m4, 1)
                m6 == update_subtract_flag(m5, FALSE)
            IN  Ret(m6, 12)
      [] opcode = \hF9 ->
            LET m1 == [m EXCEPT !.cpu.reg_sp = set_pair(get_pair(m.cpu.reg_hl))]
            IN  Ret(m1, 8)
      [] opcode = \hFA ->
            LET r1 == get_word(m)
                r2 == Read(r1.m, r1.val)
                m3 == [r2.m EXCEPT !.cpu.reg_af.hi = r2.val]
            IN  Ret(m3, 16)
      [] opcode = \hFB ->
            LET m1 == [m EXCEPT !.cpu.interrupts_enabled = TRUE]
            IN  Ret(m1, 4)
      [] opcode = \hFE ->
            LET r1 == get_byte(m)
                m2 == cp_reg_a(r1.m, r1.val)
            IN  Ret(m2, 8)
      [] opcode = \hFF ->
            LET m1 == call_routine(m, \h0038)
            IN  Ret(m1, 16)
      [] OTHER -> Undefined(m)

\* The match with EI (0xFB) sent to the arm of DI (0xF3).
Dispatch_EiAsDi(m, opcode) ==
    CASE opcode \div 16 = 0 -> Opcode0x(m, opcode)
      [] opcode \div 16 = 1 -> Opcode1x(m, opcode)
      [] opcode \div 16 = 2 -> Opcode2x(m, opcode)
      [] opcode \div 16 = 3 -> Opcode3x(m, opcode)
      [] opcode \div 16 = 4 -> Opcode4x(m, opcode)
      [] opcode \div 16 = 5 -> Opcode5x(m, opcode)
      [] opcode \div 16 = 6 -> Opcode6x(m, opcode)
      [] opcode \div 16 = 7 -> Opcode7x(m, opcode)
      [] opcode \div 16 = 8 -> Opcode8x(m, opcode)
      [] opcode \div 16 = 9 -> Opcode9x(m, opcode)
      [] opcode \div 16 = 10 -> OpcodeAx(m, opcode)
      [] opcode \div 16 = 11 -> OpcodeBx(m, opcode)
      [] opcode \div 16 = 12 -> OpcodeCx(m, opcode)
      [] opcode \div 16 = 13 -> OpcodeDx(m, opcode)
      [] opcode \div 16 = 14 -> OpcodeEx(m, opcode)
      [] opcode \div 16 = 15 -> OpcodeFx(m, IF opcode = \hFB THEN \hF3 ELSE opcode)

Dispatch(m, opcode) ==
    CASE opcode \div 16 = 0 -> Opcode0x(m, opcode)
      [] opcode \div 16 = 1 -> Opcode1x(m, opcode)
      [] opcode \div 16 = 2 -> Opcode2x(m, opcode)
      [] opcode \div 16 = 3 -> Opcode3x(m, opcode)
      [] opcode \div 16 = 4 -> Opcode4x(m, opcode)
      [] opcode \div 16 = 5 -> Opcode5x(m, opcode)
      [] opcode \div 16 = 6 -> Opcode6x(m, opcode)
      [] opcode \div 16 = 7 -> Opcode7x(m, opcode)
      [] opcode \div 16 = 8 -> Opcode8x(m, opcode)
      [] opcode \div 16 = 9 -> Opcode9x(m, opcode)
      [] opcode \div 16 = 10 -> OpcodeAx(m, opcode)
      [] opcode \div 16 = 11 -> OpcodeBx(m, opcode)
      [] opcode \div 16 = 12 -> OpcodeCx(m, opcode)
      [] opcode \div 16 = 13 -> OpcodeDx(m, opcode)
      [] opcode \div 16 = 14 -> OpcodeEx(m, opcode)
      [] opcode \div 16 = 15 -> OpcodeFx(m, opcode)

interpret_opcode_NoHaltCheck(m) ==
    LET r0 == Read(m, m.cpu.reg_pc)
        m1 == AdvancePc(r0.m, 1)
    IN  Dispatch(m1, r0.val)

interpret_opcode(m) ==
    IF m.cpu.halted
    THEN Ret(m, 4)
    ELSE LET r0 == Read(m, m.cpu.reg_pc)
             m1 == AdvancePc(r0.m, 1)
         IN  Dispatch(m1, r0.val)

---------------------------------------------------------------------------
(* The bus writes the memory router forwards to the cartridge.             *)

\* The addresses written: both ends of each control range, an address with
\* bit 3 set and one with bit 3 clear in the RAM-enable range, and the
\* lowest and the highest address above the control range.
Addresses ==
    { \h0000, \h0008, \h1FF7, \h2000, \h3FFF,
      \h4000, \h5FFF, \h6000, \h7FFF, \h8000, \hFFFF }

\* The bytes written: every value of the fields the controller decodes
\* (low nibble 0x0, 0xA and others; bits 0-4 zero and non-zero; bits 5-7
\* zero and non-zero; bits 0-1 and bit 0 each way), alone and combined.
Bytes ==
    { \h00, \h01, \h03, \h0A, \h10, \h1F, \h20, \h2A, \h60, \hE0, \hE2, \hFF }

NoCall == [op |-> "none"]

\* Gameboy::step is not running: its locals do not exist.
NotStepping == [at |-> "idle", max_cycles |-> 0, cycles_per_step |-> 0, current_cycles |-> 0]

\* No byte known yet.
EmptyMemory == [a \in {} |-> 0]

\* What a call found when it was made.
Snapshot(mem) == [cartridge |-> cartridge, cpu |-> cpu, memory |-> mem]

CartInit ==
    /\ \E header \in HeaderBytes : cartridge = NewCartridge(header)
    /\ cpu = NewCpu
    /\ memory = EmptyMemory
    /\ overflow_checks = FALSE
    /\ panic = FALSE
    /\ gameboy = NotStepping
    /\ spent = 0
    /\ calls = 0
    /\ ret = NoRet
    /\ call = NoCall
    /\ before = Snapshot(memory)

ManageBanking(address, byte) ==
    /\ cartridge' = manage_banking(cartridge, address, byte)
    /\ call' = [op |-> "manage_banking", address |-> address, byte |-> byte]
    /\ before' = Snapshot(memory)
    /\ UNCHANGED <<cpu, memory, overflow_checks, panic, gameboy, spent, calls, ret>>

CartNext == \E address \in Addresses, byte \in Bytes : ManageBanking(address, byte)

CartSpec == CartInit /\ [][CartNext]_vars

---------------------------------------------------------------------------
(* The interpreter run from power-on.  The bytes of the ROM and of memory  *)
(* are not fixed in advance: a byte is drawn the first time a call reads   *)
(* it, and is known from then on.                                          *)

\* The cycles the interpreter may have spent when a call is made.
MaxCycles == 5

\* The bytes drawn for an operand or a data byte.
ByteInputs == { \h00, \h01, \hFF }

\* The bytes drawn for an opcode: all of them.
OpcodeInputs == 0 .. 255

Machine(mem) ==
    [ cpu       |-> cpu,
      memory    |-> mem,
      cartridge |-> cartridge,
      panic     |-> FALSE,
      miss      |-> NoMiss,
      checks    |-> overflow_checks,
      ret       |-> NoRet ]

\* The address holds an opcode of the call: the byte at reg_pc, or the byte
\* after a 0xCB there.
IsOpcodeFetch(address) ==
    \/ address = cpu.reg_pc
    \/ /\ address = Wrap16(cpu.reg_pc + 1)
       /\ cpu.reg_pc \in DOMAIN memory
       /\ memory[cpu.reg_pc] = \hCB

CpuInit ==
    /\ \E header \in CpuHeaders : cartridge = NewCartridge(header)
    /\ cpu = NewCpu
    /\ memory = EmptyMemory
    /\ overflow_checks \in BOOLEAN
    /\ panic = FALSE
    /\ gameboy = NotStepping
    /\ spent = 0
    /\ calls = 0
    /\ ret = NoRet
    /\ call = NoCall
    /\ before = Snapshot(memory)

Running == ~panic /\ spent < MaxCycles

\* The ROM image and the memory contents are the run's input: the byte the
\* next call reads first, if not known yet, is drawn.  `out` is the outcome
\* of the call on the bytes known so far.
DrawByte(out) ==
    /\ out.miss # NoMiss
    /\ \E byte \in (IF IsOpcodeFetch(out.miss) THEN OpcodeInputs ELSE ByteInputs) :
          /\ memory' = (out.miss :> byte) @@ memory
          /\ call' = [op |-> "draw_byte", address |-> out.miss, byte |-> byte]
    /\ UNCHANGED <<cartridge, cpu, overflow_checks, panic, gameboy, spent, calls, ret,
                   before>>

\* One call of interpret_opcode, every byte it reads being known; `out` is
\* its outcome.  A panic ends the run.
InterpretOpcode(out) ==
    /\ Running
    /\ out.miss = NoMiss
    /\ call' = [op |-> "interpret_opcode"]
    /\ before' = Snapshot(memory)
    /\ panic' = out.panic
    /\ IF out.panic
       THEN UNCHANGED <<cpu, memory, cartridge, spent, ret>>
       ELSE /\ cpu' = out.cpu
            /\ memory' = out.memory
            /\ cartridge' = out.cartridge
            /\ ret' = out.ret
            /\ spent' = spent + out.ret
    /\ UNCHANGED <<overflow_checks, gameboy, calls>>

\* set_halted(false) from outside the interpreter: the interrupt
\* collaborator waking a halted CPU.
SetHalted(halted) ==
    /\ Running
    /\ cpu.halted
    /\ cpu' = set_halted(Machine(memory), halted).cpu
    /\ call' = [op |-> "set_halted", halted |-> halted]
    /\ before' = Snapshot(memory)
    /\ UNCHANGED <<cartridge, memory, overflow_checks, panic, gameboy, spent, calls, ret>>

CpuNext ==
    \/ \E out \in {interpret_opcode(Machine(memory))} : Running /\ DrawByte(out)
    \/ \E out \in {interpret_opcode(Machine(memory))} : InterpretOpcode(out)
    \/ \E halted \in {FALSE} : SetHalted(halted)

CpuSpec == CpuInit /\ [][CpuNext]_vars

---------------------------------------------------------------------------
(* The stack called directly (stack_push and stack_pop are public), once   *)
(* the program has set the stack pointer with LD SP,nn.                    *)

\* The direct calls made in a run.
MaxCalls == 2

\* The stack pointers loaded: the lowest ones, both sides of each border of
\* the cartridge's ranges (0x8000, 0xA000, 0xC000), and the highest ones.
SpInputs ==
    { \h0000, \h0001, \h0002, \h8001, \h8002, \hA001, \hA002, \hC001, \hC002,
      \hFFFE, \hFFFF }

\* The words pushed.
WordInputs == { \h0000, \h00FF, \hABCD, \hFFFF }

LD_SP == \h31

\* The machine at power-on over a cartridge with the given header byte.
PowerOn(header, checks, mem) ==
    [ cpu       |-> NewCpu,
      memory    |-> mem,
      cartridge |-> NewCartridge(header),
      panic     |-> FALSE,
      miss      |-> NoMiss,
      checks    |-> checks,
      ret       |-> NoRet ]

\* The program bytes of LD SP,nn at the entry point.
LoadSpProgram(sp) ==
    (\h0100 :> LD_SP) @@ (\h0101 :> sp % 256) @@ (\h0102 :> sp \div 256)

StackInit ==
    \E sp \in SpInputs, header \in CpuHeaders, checks \in BOOLEAN :
        \E out \in {interpret_opcode(PowerOn(header, checks, LoadSpProgram(sp)))} :
            /\ cartridge = out.cartridge
            /\ cpu = out.cpu
            /\ memory = out.memory
            /\ overflow_checks = checks
            /\ panic = out.panic
            /\ gameboy = NotStepping
            /\ spent = out.ret
            /\ calls = 0
            /\ ret = out.ret
            /\ call = [op |-> "interpret_opcode"]
            /\ before = [cartridge |-> NewCartridge(header), cpu |-> NewCpu,
                         memory |-> LoadSpProgram(sp)]

Calling == ~panic /\ calls < MaxCalls

\* What a direct call that ran to its end (or to a panic) leaves.
Called(out) ==
    /\ panic' = out.panic
    /\ IF out.panic
       THEN UNCHANGED <<cpu, memory, cartridge>>
       ELSE /\ cpu' = out.cpu
            /\ memory' = out.memory
            /\ cartridge' = out.cartridge
    /\ before' = Snapshot(memory)
    /\ calls' = calls + 1
    /\ UNCHANGED <<overflow_checks, gameboy, spent>>

\* stack_push(val).  The call is recorded with the stack pointer it found.
StackPush(val) ==
    /\ Calling
    /\ Called(stack_push(Machine(memory), val))
    /\ ret' = NoRet
    /\ call' = [op |-> "stack_push", val |-> val, sp |-> get_pair(cpu.reg_sp)]

\* stack_pop(), both bytes it reads being known; `out` is its outcome.  The
\* call is recorded with the call made before it.
StackPop(out) ==
    /\ Calling
    /\ out.m.miss = NoMiss
    /\ Called(out.m)
    /\ ret' = out.val
    /\ call' = [op |-> "stack_pop", prior |-> call]

StackNext ==
    \/ \E val \in WordInputs : StackPush(val)
    \/ \E out \in {stack_pop(Machine(memory))} : StackPop(out)
    \/ \E out \in {stack_pop(Machine(memory))} : Calling /\ DrawByte(out.m)

StackSpec == StackInit /\ [][StackNext]_vars

---------------------------------------------------------------------------
(* gameboy.rs: Gameboy::step, one action per statement.  `gameboy.at`      *)
(* names the statement to run next.  The collaborators it calls            *)
(* (gamepad, memory_manager's timers, display_manager, interrupt_handler)  *)
(* take none of step's locals by reference.                                *)

\* The iterations of the loop followed.
MaxIterations == 40

\* `let max_cycles = 69905;`
FrameBudget == 69905

\* interrupt_handler.rs, check_interrupts(&mut cpu): with an interrupt
\* pending it clears halted and, when interrupts_enabled, pushes reg_pc and
\* sets reg_pc to the interrupt's vector.
InterruptVectors == { \h40, \h48, \h50, \h58, \h60 }

check_interrupts(m, pending, vector) ==
    IF ~pending
    THEN m
    ELSE LET m1 == set_halted(m, FALSE)
         IN  IF ~m1.cpu.interrupts_enabled
             THEN m1
             ELSE set_reg_pc(stack_push(m1, m1.cpu.reg_pc), vector)

FrameInit ==
    /\ \E header \in CpuHeaders : cartridge = NewCartridge(header)
    /\ cpu = NewCpu
    /\ memory = EmptyMemory
    /\ overflow_checks \in BOOLEAN
    /\ panic = FALSE
    /\ gameboy = NotStepping
    /\ spent = 0
    /\ calls = 0
    /\ ret = NoRet
    /\ call = NoCall
    /\ before = Snapshot(memory)

Following == ~panic /\ calls < MaxIterations

\* A call that changes nothing the model holds: step moves on to `to`.
Goes(to, op) ==
    /\ gameboy' = [gameboy EXCEPT !.at = to]
    /\ call' = [op |-> op]
    /\ UNCHANGED <<cartridge, cpu, memory, overflow_checks, panic, spent, calls,
                   ret, before>>

\* main calls step(): `let max_cycles = 69905; let cycles_per_step = 0;`
Step ==
    /\ Following
    /\ gameboy.at = "idle"
    /\ gameboy' = [at |-> "poll_events", max_cycles |-> FrameBudget,
                   cycles_per_step |-> 0, current_cycles |-> 0]
    /\ call' = [op |-> "step"]
    /\ before' = Snapshot(memory)
    /\ UNCHANGED <<cartridge, cpu, memory, overflow_checks, panic, spent, calls, ret>>

\* `self.gamepad.poll_events();`
PollEvents ==
    /\ Following
    /\ gameboy.at = "poll_events"
    /\ Goes("while", "poll_events")

\* `while cycles_per_step < max_cycles`: into the body, or past the loop to
\* `self.display_manager.draw_display();` and the return.
While ==
    /\ Following
    /\ gameboy.at = "while"
    /\ gameboy' = [gameboy EXCEPT !.at =
                      IF gameboy.cycles_per_step < gameboy.max_cycles
                      THEN "let_current_cycles"
                      ELSE "returned"]
    /\ call' = [op |-> IF gameboy.cycles_per_step < gameboy.max_cycles
                       THEN "while" ELSE "draw_display"]
    /\ UNCHANGED <<cartridge, cpu, memory, overflow_checks, panic, spent, calls,
                   ret, before>>

\* `let current_cycles = 0;`
LetCurrentCycles ==
    /\ Following
    /\ gameboy.at = "let_current_cycles"
    /\ gameboy' = [gameboy EXCEPT !.at = "update_timers", !.current_cycles = 0]
    /\ call' = [op |-> "let_current_cycles"]
    /\ UNCHANGED <<cartridge, cpu, memory, overflow_checks, panic, spent, calls,
                   ret, before>>

\* `update_timers(current_cycles, &mut self.interrupt_handler);`
UpdateTimers ==
    /\ Following
    /\ gameboy.at = "update_timers"
    /\ Goes("update_display", "update_timers")

\* `self.display_manager.update_display(current_cycles);`
UpdateDisplay ==
    /\ Following
    /\ gameboy.at = "update_display"
    /\ Goes("check_interrupts", "update_display")

\* `self.interrupt_handler.check_interrupts(&mut self.cpu);`, the last
\* statement of the body: one more iteration is done.
CheckInterrupts(pending, vector) ==
    /\ Following
    /\ gameboy.at = "check_interrupts"
    /\ \E out \in {check_interrupts(Machine(memory), pending, vector)} :
          /\ cpu' = out.cpu
          /\ memory' = out.memory
          /\ cartridge' = out.cartridge
          /\ panic' = out.panic
    /\ gameboy' = [gameboy EXCEPT !.at = "while"]
    /\ calls' = calls + 1
    /\ call' = [op |-> "check_interrupts", pending |-> pending]
    /\ before' = Snapshot(memory)
    /\ UNCHANGED <<overflow_checks, spent, ret>>

FrameNext ==
    \/ Step
    \/ PollEvents
    \/ While
    \/ LetCurrentCycles
    \/ UpdateTimers
    \/ UpdateDisplay
    \/ \E pending \in BOOLEAN, vector \in InterruptVectors :
          CheckInterrupts(pending, vector)

FrameSpec == FrameInit /\ [][FrameNext]_vars

---------------------------------------------------------------------------
(* cpu.rs: the arithmetic and logic methods, each a function of register A, *)
(* the flags and its operand.  One call is made on the CPU holding each    *)
(* drawn A and flags: A as LD A,n loads it, the flags as POP AF loads them. *)

\* The values of register A.
AInputs == 0 .. 255

\* The values of the flag byte: none set, Carry alone, the power-on flags,
\* all but Carry, all four.
FlagInputs == { \h00, \h10, \hB0, \hE0, \hF0 }

\* The operands passed: 0, 1, both sides of the nibble border and of the
\* sign bit, the highest byte, and 0x0B.
SrcInputs == { \h00, \h01, \h0B, \h0F, \h10, \h7F, \h80, \hF0, \hFF }

AluInit ==
    /\ \E header \in CpuHeaders : cartridge = NewCartridge(header)
    /\ \E a \in AInputs, f \in FlagInputs :
          cpu = [NewCpu EXCEPT !.reg_af = [hi |-> a, lo |-> f]]
    /\ memory = EmptyMemory
    /\ overflow_checks = FALSE
    /\ panic = FALSE
    /\ gameboy = NotStepping
    /\ spent = 0
    /\ calls = 0
    /\ ret = NoRet
    /\ call = NoCall
    /\ before = Snapshot(memory)

\* No call has been made on the drawn state yet.
Fresh == call = NoCall

\* What a call of one of these methods leaves: `m` is the machine after it,
\* `val` what it left in the byte it was lent (NoRet when it was lent none).
Applied(op, arg, m, val) ==
    /\ cpu' = m.cpu
    /\ ret' = val
    /\ call' = [op |-> op, arg |-> arg]
    /\ before' = Snapshot(memory)
    /\ UNCHANGED <<cartridge, memory, overflow_checks, panic, gameboy, spent, calls>>

AddU8A(src) ==
    /\ Fresh
    /\ Applied("add_u8_a", src, add_u8_a(Machine(memory), src), NoRet)

AdcRegA(src) ==
    /\ Fresh
    /\ Applied("adc_reg_a", src, adc_reg_a(Machine(memory), src), NoRet)

SubU8A(src) ==
    /\ Fresh
    /\ Applied("sub_u8_a", src, sub_u8_a(Machine(memory), src), NoRet)

SbcRegA(src) ==
    /\ Fresh
    /\ Applied("sbc_reg_a", src, sbc_reg_a(Machine(memory), src), NoRet)

AndRegA(src) ==
    /\ Fresh
    /\ Applied("and_reg_a", src, and_reg_a(Machine(memory), src), NoRet)

OrRegA(src) ==
    /\ Fresh
    /\ Applied("or_reg_a", src, or_reg_a(Machine(memory), src), NoRet)

XorRegA(src) ==
    /\ Fresh
    /\ Applied("xor_reg_a", src, xor_reg_a(Machine(memory), src), NoRet)

CpRegA(src) ==
    /\ Fresh
    /\ Applied("cp_reg_a", src, cp_reg_a(Machine(memory), src), NoRet)

\* inc_u8(&mut dest) / dec_u8(&mut dest): the byte lent is a copy of a
\* register, as in `let mut a = self.reg_af.hi; self.inc_u8(&mut a);`.
IncU8(dest) ==
    /\ Fresh
    /\ \E out \in {inc_u8(Machine(memory), dest)} :
          Applied("inc_u8", dest, out.m, out.val)

DecU8(dest) ==
    /\ Fresh
    /\ \E out \in {dec_u8(Machine(memory), dest)} :
          Applied("dec_u8", dest, out.m, out.val)

AluNext ==
    \/ \E src \in SrcInputs : AddU8A(src)
    \/ \E src \in SrcInputs : AdcRegA(src)
    \/ \E src \in SrcInputs : SubU8A(src)
    \/ \E src \in SrcInputs : SbcRegA(src)
    \/ \E src \in SrcInputs : AndRegA(src)
    \/ \E src \in SrcInputs : OrRegA(src)
    \/ \E src \in SrcInputs : XorRegA(src)
    \/ \E src \in SrcInputs : CpRegA(src)
    \/ \E dest \in SrcInputs \cup {cpu.reg_af.hi} : IncU8(dest)
    \/ \E dest \in SrcInputs \cup {cpu.reg_af.hi} : DecU8(dest)

AluSpec == AluInit /\ [][AluNext]_vars

---------------------------------------------------------------------------
(* cpu.rs: the interpreter run over a ROM image.  At the entry point an    *)
(* ADD A,n and a JP lead to the sequence LD A,0x05; ADD A,0x0B placed at   *)
(* `target`.  No other byte is known, so the run ends where it leaves the  *)
(* image.                                                                  *)

ADD_A_N == \hC6
JP_NN   == \hC3
LD_A_N  == \h3E

\* Where the sequence is placed: in the fixed and the switchable ROM bank,
\* in work RAM, in high RAM, and at the two highest places that hold it.
PcInputs == { \h0150, \h4000, \hC000, \hFF80, \hFFFB, \hFFFC }

\* The four bytes of the sequence at `target`.
Sequence(target) ==
    (target :> LD_A_N) @@ (target + 1 :> \h05) @@
    (target + 2 :> ADD_A_N) @@ (target + 3 :> \h0B)

RomImage(n, target) ==
    (\h0100 :> ADD_A_N) @@ (\h0101 :> n) @@
    (\h0102 :> JP_NN) @@ (\h0103 :> target % 256) @@ (\h0104 :> target \div 256) @@
    Sequence(target)

SequenceInit ==
    /\ \E header \in CpuHeaders : cartridge = NewCartridge(header)
    /\ cpu = NewCpu
    /\ \E n \in SrcInputs, target \in PcInputs : memory = RomImage(n, target)
    /\ overflow_checks \in BOOLEAN
    /\ panic = FALSE
    /\ gameboy = NotStepping
    /\ spent = 0
    /\ calls = 0
    /\ ret = NoRet
    /\ call = NoCall
    /\ before = Snapshot(memory)

\* One call of interpret_opcode over the image; `out` is its outcome.  A
\* panic ends the run, and so does a fetch outside the image.
RunOpcode(out) ==
    /\ ~panic
    /\ out.miss = NoMiss
    /\ call' = [op |-> "interpret_opcode"]
    /\ before' = Snapshot(memory)
    /\ panic' = out.panic
    /\ IF out.panic
       THEN UNCHANGED <<cpu, memory, cartridge, spent, ret>>
       ELSE /\ cpu' = out.cpu
            /\ memory' = out.memory
            /\ cartridge' = out.cartridge
            /\ ret' = out.ret
            /\ spent' = spent + out.ret
    /\ UNCHANGED <<overflow_checks, gameboy, calls>>

SequenceNext == \E out \in {interpret_opcode(Machine(memory))} : RunOpcode(out)

SequenceSpec == SequenceInit /\ [][SequenceNext]_vars

---------------------------------------------------------------------------
(* One instruction from any register contents.  The registers hold what    *)
(* LD rr,nn, LD A,n, POP AF and JP nn left in them, the opcode and every   *)
(* byte the instruction reads are drawn when first read, and               *)
(* interpret_opcode is called once.                                        *)

\* reg_hl, as a value and as an address: in the RAM-enable and the ROM-bank
\* control ranges, in the cartridge RAM window, in work RAM, and the last
\* address; the first and the last wrap when HL is decremented, incremented
\* or added to.
HlInputs == { \h0000, \h2000, \hA0FF, \hC000, \hFFFF }

\* A, BC, DE, SP and pc: bytes with bit 7 and bit 0 set and clear, zero and
\* all ones; pairs on both sides of a carry out of bits 7, 11 and 15; the
\* stack at power-on, in work RAM and across 0xC000; the instruction at the
\* entry point and at the last address a two-byte instruction fits below.
\* With them the two switches: interrupts enabled as EI leaves them, and
\* the CPU halted as HALT leaves it.
RegisterFiles ==
    { [a |-> \h00, bc |-> \h0180, de |-> \hFF7F, sp |-> \hFFFE, pc |-> \h0100,
       interrupts_enabled |-> FALSE, halted |-> FALSE],
      [a |-> \h80, bc |-> \h0001, de |-> \h80FE, sp |-> \hD000, pc |-> \h0100,
       interrupts_enabled |-> TRUE, halted |-> FALSE],
      [a |-> \h01, bc |-> \hFFFF, de |-> \h0000, sp |-> \hC001, pc |-> \hFFFD,
       interrupts_enabled |-> FALSE, halted |-> FALSE],
      [a |-> \h80, bc |-> \h0001, de |-> \h80FE, sp |-> \hD000, pc |-> \h0100,
       interrupts_enabled |-> TRUE, halted |-> TRUE] }

InstructionInit ==
    /\ \E header \in CpuHeaders : cartridge = NewCartridge(header)
    /\ \E file \in RegisterFiles, f \in FlagInputs, hl \in HlInputs :
          cpu = [NewCpu EXCEPT !.reg_af = [hi |-> file.a, lo |-> f],
                               !.reg_bc = set_pair(file.bc),
                               !.reg_de = set_pair(file.de),
                               !.reg_hl = set_pair(hl),
                               !.reg_sp = set_pair(file.sp),
                               !.reg_pc = file.pc,
                               !.interrupts_enabled = file.interrupts_enabled,
                               !.halted = file.halted]
    /\ memory = EmptyMemory
    /\ overflow_checks \in BOOLEAN
    /\ panic = FALSE
    /\ gameboy = NotStepping
    /\ spent = 0
    /\ calls = 0
    /\ ret = NoRet
    /\ call = NoCall
    /\ before = Snapshot(memory)

\* No call of interpret_opcode has returned yet.
Unspent == spent = 0

InstructionNext ==
    \/ \E out \in {interpret_opcode(Machine(memory))} : Unspent /\ DrawByte(out)
    \/ \E out \in {interpret_opcode(Machine(memory))} : Unspent /\ RunOpcode(out)

InstructionSpec == InstructionInit /\ [][InstructionNext]_vars

---------------------------------------------------------------------------
(* Loading a cartridge: Cartridge::new reads the ROM file named on the     *)
(* command line with read_rom and decodes its header byte.  A ROM file is  *)
(* described by whether it can be read, its length, and the byte at offset *)
(* 0x147 when it has one.                                                  *)

HEADER_OFFSET == \h147

\* The ROM files loaded: a file that cannot be read; lengths zero, the
\* smallest powers of two, 3, both sides of the header offset, and both
\* sides of the largest size; each with every accepted header byte, the
\* first rejected one and the last byte value.
RomInputs ==
    { [readable |-> FALSE, len |-> 0, header |-> 0] } \cup
    { [readable |-> TRUE, len |-> len, header |-> header] :
        len \in { \h0, \h1, \h2, \h3, \h100, \h147, \h148, \h200, \h8000, \h8001,
                  \hC000, \h200000, \h200001, \h400000 },
        header \in (0 .. 7) \cup { \hFF } }

\* Before Cartridge::new has returned there is no cartridge.
NoCartridge == [banking_type |-> "unloaded"]

\* read_rom without the power-of-two test.
read_rom_NoPowerTest(rom, checks) ==
    [ err   |-> ~rom.readable,
      panic |-> rom.readable /\ rom.len > \h200000 ]

\* read_rom: Err when the file cannot be opened or read; a panic when the
\* size test fails; Ok(buffer) otherwise.  `buffer.len() - 1` is evaluated
\* only when the length is not above 0x200000; for an empty buffer it
\* overflows usize, and when that is not checked it wraps to all ones, so
\* that 0 & (0 - 1) = 0.
read_rom(rom, checks) ==
    LET len        == rom.len
        too_long   == len > \h200000
        overflowed == ~too_long /\ len = 0
        masked     == IF len = 0 THEN 0 ELSE BitAnd(len, len - 1)
    IN  [ err   |-> ~rom.readable,
          panic |-> rom.readable /\
                    (too_long \/ (checks /\ overflowed) \/ masked # 0) ]

\* Cartridge::new: panics when read_rom fails, when rom[0x147] is out of
\* bounds and when the header byte has no arm in the match.
CartridgeNew(rom, checks) ==
    LET read == read_rom(rom, checks)
    IN  IF read.err \/ read.panic
        THEN [panic |-> TRUE, cartridge |-> NoCartridge]
        ELSE IF ~(HEADER_OFFSET < rom.len)
        THEN [panic |-> TRUE, cartridge |-> NoCartridge]
        ELSE IF rom.header \notin HeaderBytes
        THEN [panic |-> TRUE, cartridge |-> NoCartridge]
        ELSE [panic |-> FALSE, cartridge |-> NewCartridge(rom.header)]

LoadInit ==
    /\ cartridge = NoCartridge
    /\ cpu = NewCpu
    /\ memory = EmptyMemory
    /\ overflow_checks \in BOOLEAN
    /\ panic = FALSE
    /\ gameboy = NotStepping
    /\ spent = 0
    /\ calls = 0
    /\ ret = NoRet
    /\ call = NoCall
    /\ before = Snapshot(memory)

\* Cartridge::new() on the ROM file `rom`, once.
New(rom) ==
    /\ call = NoCall
    /\ \E out \in {CartridgeNew(rom, overflow_checks)} :
          /\ cartridge' = out.cartridge
          /\ panic' = out.panic
    /\ call' = [op |-> "new", rom |-> rom]
    /\ before' = Snapshot(memory)
    /\ UNCHANGED <<cpu, memory, overflow_checks, gameboy, spent, calls, ret>>

LoadNext == \E rom \in RomInputs : New(rom)

LoadSpec == LoadInit /\ [][LoadNext]_vars

---------------------------------------------------------------------------
(* The cartridge RAM accessors next to the banking controller: from a      *)
(* loaded cartridge, any sequence of set_ram, get_ram and manage_banking   *)
(* calls.  `call.stored` remembers the set_ram calls made so far           *)
(* (offset :> the byte of the last one).                                   *)

\* Offsets into ram_banks: the first and last byte, and the first byte of
\* the second 0x2000-byte bank.
RamOffsets == { \h0000, \h2000, \h7FFF }

RamInit ==
    /\ \E header \in { 0, 1, 5 } : cartridge = NewCartridge(header)
    /\ cpu = NewCpu
    /\ memory = EmptyMemory
    /\ overflow_checks = FALSE
    /\ panic = FALSE
    /\ gameboy = NotStepping
    /\ spent = 0
    /\ calls = 0
    /\ ret = NoRet
    /\ call = [op |-> "new", stored |-> [a \in {} |-> 0]]
    /\ before = Snapshot(memory)

SetRam(address, byte) ==
    /\ cartridge' = set_ram(cartridge, address, byte)
    /\ call' = [op |-> "set_ram", address |-> address, byte |-> byte,
                stored |-> (address :> byte) @@ call.stored]
    /\ before' = Snapshot(memory)
    /\ UNCHANGED <<cpu, memory, overflow_checks, panic, gameboy, spent, calls, ret>>

GetRam(address) ==
    /\ ret' = get_ram(cartridge, address)
    /\ call' = [op |-> "get_ram", address |-> address, stored |-> call.stored]
    /\ before' = Snapshot(memory)
    /\ UNCHANGED <<cartridge, cpu, memory, overflow_checks, panic, gameboy, spent, calls>>

RamControl(address, byte) ==
    /\ cartridge' = manage_banking(cartridge, address, byte)
    /\ call' = [op |-> "manage_banking", address |-> address, byte |-> byte,
                stored |-> call.stored]
    /\ before' = Snapshot(memory)
    /\ UNCHANGED <<cpu, memory, overflow_checks, panic, gameboy, spent, calls, ret>>

\* The control writes are those that enable RAM (0x0000), select a RAM
\* bank (0x4000) and switch the banking mode (0x6000).
RamNext ==
    \/ \E address \in RamOffsets, byte \in { \h00, \h5A, \hFF } :
          SetRam(address, byte)
    \/ \E address \in RamOffsets : GetRam(address)
    \/ \E address \in { \h0000, \h4000, \h6000 },
           byte \in { \h00, \h01, \h03, \h0A } :
          RamControl(address, byte)

RamSpec == RamInit /\ [][RamNext]_vars

---------------------------------------------------------------------------
(* A call and the routine it enters.  The image holds one call instruction *)
(* (CALL nn, CALL cc,nn or RST n) where pc points, a RET where the call    *)
(* leads, and what the two bytes below sp held before; interpret_opcode is *)
(* called as long as the byte at pc is in the image.                       *)

RET == \hC9

\* pc and sp at the call: the stack at power-on and in work RAM, right
\* above the call's operand, in the ROM bank, and with one byte below it;
\* the call in ROM, in work RAM, and at the last place that holds it.
CallSites ==
    { [pc |-> \h0100, sp |-> \hFFFE], [pc |-> \h0100, sp |-> \hD000],
      [pc |-> \hC000, sp |-> \hC003], [pc |-> \hC000, sp |-> \hE000],
      [pc |-> \h0100, sp |-> \h4002], [pc |-> \h0100, sp |-> \h0001],
      [pc |-> \hFFFC, sp |-> \hD000] }

\* The image: RST n leads to n = opcode - 0xC7, a CALL to its operand.
CallImage(opcode, site, target) ==
    (site.pc :> opcode) @@
    (site.pc + 1 :> target % 256) @@ (site.pc + 2 :> target \div 256) @@
    ((IF opcode % 8 = 7 THEN opcode - \hC7 ELSE target) :> RET) @@
    (Wrap16(site.sp + 65535) :> \hFF) @@ (Wrap16(site.sp + 65534) :> \hFF)

CallInit ==
    /\ \E header \in CpuHeaders : cartridge = NewCartridge(header)
    /\ \E site \in CallSites, f \in FlagInputs, target \in { \h0150, \hC150, \hFF80 },
          opcode \in { \hCD, \hC4, \hCC, \hD4, \hDC } \cup { \hC7 + 8 * n : n \in 0 .. 7 } :
          /\ cpu = [NewCpu EXCEPT !.reg_af.lo = f,
                                  !.reg_sp = set_pair(site.sp),
                                  !.reg_pc = site.pc]
          /\ memory = CallImage(opcode, site, target)
    /\ overflow_checks \in BOOLEAN
    /\ panic = FALSE
    /\ gameboy = NotStepping
    /\ spent = 0
    /\ calls = 0
    /\ ret = NoRet
    /\ call = NoCall
    /\ before = Snapshot(memory)

CallSpec == CallInit /\ [][SequenceNext]_vars

---------------------------------------------------------------------------
(* Cartridge claims, checked under CartSpec.  `call` names the last write  *)
(* and `before` holds the cartridge as it was when the write was made.     *)

Managed == call.op = "manage_banking"

Old == before.cartridge

InLoRomRange   == call.address >= 8192 /\ call.address < 16384
InHiRomRange   == call.address >= 16384 /\ call.address < 24576
InModeRange    == call.address >= 24576 /\ call.address < 32768
InEnableRange  == call.address < 8192

\* The fields of a byte, by arithmetic.
LowNibble(b)  == b % 16
LowFive(b)    == b % 32
HighThree(b)  == (b \div 32) * 32
LowTwo(b)     == b % 4

\* C1: in every state reachable from the initial cartridge state by
\* manage_banking calls, for every banking type, current_rom_bank is not 0.
C1_RomBankNeverZero == cartridge.current_rom_bank # 0

\* A write that produced 0 has been bumped: MBC1 in ROM banking mode held
\* bank 0x20 (low five bits zero) and the high bits were then written zero.
C1_Witness ==
    /\ Managed /\ InHiRomRange
    /\ Old.banking_type = "MBC1" /\ Old.rom_banking_mode
    /\ Old.current_rom_bank = 32
    /\ HighThree(call.byte) = 0
    /\ cartridge.current_rom_bank = 1

\* C3 as stated: for MBC1 and MBC2, a write to 0x2000..0x3FFF whose bank
\* bits are all zero (byte & 0x1F for MBC1, byte & 0x0F for MBC2) leaves
\* current_rom_bank = 1.
C3_AsStated ==
    (/\ Managed /\ InLoRomRange
     /\ \/ Old.banking_type = "MBC1" /\ LowFive(call.byte) = 0
        \/ Old.banking_type = "MBC2" /\ LowNibble(call.byte) = 0)
    => cartridge.current_rom_bank = 1

\* C3 amended: such a write leaves current_rom_bank = 1 for MBC2, and for
\* MBC1 when bits 5-7 of the bank were zero before the write; for MBC1 with
\* a non-zero high part it leaves current_rom_bank = old & 0xE0, which is
\* not 0.
C3_BankZeroAliasing ==
    (/\ Managed /\ InLoRomRange
     /\ \/ Old.banking_type = "MBC1" /\ LowFive(call.byte) = 0
        \/ Old.banking_type = "MBC2" /\ LowNibble(call.byte) = 0)
    => /\ cartridge.current_rom_bank # 0
       /\ cartridge.current_rom_bank =
            IF Old.banking_type = "MBC2" \/ HighThree(Old.current_rom_bank) = 0
            THEN 1
            ELSE HighThree(Old.current_rom_bank)

\* A zero-bits write to the low range on MBC1 from a bank above 1 with no
\* high bits set, and on MBC2 from bank 15: both end at bank 1.
C3_Witness ==
    /\ Managed /\ InLoRomRange
    /\ \/ /\ Old.banking_type = "MBC1" /\ LowFive(call.byte) = 0
          /\ Old.current_rom_bank = 31
       \/ /\ Old.banking_type = "MBC2" /\ LowNibble(call.byte) = 0
          /\ Old.current_rom_bank = 15
    /\ call.byte # 0
    /\ cartridge.current_rom_bank = 1

\* C7: on MBC1 a write to 0x6000..0x7FFF sets rom_banking_mode to
\* (byte & 1) = 0; when that is true current_ram_bank is 0 afterwards, when
\* it is false current_ram_bank is unchanged; current_rom_bank and
\* ram_write_enabled are unchanged.
C7_ModeCoupling ==
    (Managed /\ InModeRange /\ Old.banking_type = "MBC1")
    => /\ cartridge.rom_banking_mode = (call.byte % 2 = 0)
       /\ cartridge.rom_banking_mode => cartridge.current_ram_bank = 0
       /\ ~cartridge.rom_banking_mode =>
              cartridge.current_ram_bank = Old.current_ram_bank
       /\ cartridge.current_rom_bank = Old.current_rom_bank
       /\ cartridge.ram_write_enabled = Old.ram_write_enabled
       /\ cartridge.banking_type = Old.banking_type

\* RAM bank 3 was selected in RAM banking mode and entering ROM banking mode
\* has forced it to 0.
C7_Witness ==
    /\ Managed /\ InModeRange /\ Old.banking_type = "MBC1"
    /\ ~Old.rom_banking_mode /\ Old.current_ram_bank = 3
    /\ call.byte % 2 = 0
    /\ cartridge.rom_banking_mode /\ cartridge.current_ram_bank = 0

\* C8: for MBC1 and MBC2 a write below 0x2000 sets ram_write_enabled to
\* true when the byte's low nibble is 0xA, to false when it is 0x0, and
\* leaves it unchanged otherwise; for MBC2 the write is ignored when address
\* bit 3 is set.  No write at an address >= 0x2000 changes
\* ram_write_enabled.
C8_RamWriteGating ==
    /\ (Managed /\ InEnableRange /\ Old.banking_type \in {"MBC1", "MBC2"})
       => cartridge.ram_write_enabled =
            IF Old.banking_type = "MBC2" /\ (call.address \div 8) % 2 = 1
            THEN Old.ram_write_enabled
            ELSE IF LowNibble(call.byte) = 10 THEN TRUE
            ELSE IF LowNibble(call.byte) = 0 THEN FALSE
            ELSE Old.ram_write_enabled
    /\ (Managed /\ ~InEnableRange)
       => cartridge.ram_write_enabled = Old.ram_write_enabled

\* On MBC2 an enabling byte written at an address with bit 3 set has been
\* ignored while RAM writes were disabled.
C8_Witness ==
    /\ Managed /\ InEnableRange /\ Old.banking_type = "MBC2"
    /\ (call.address \div 8) % 2 = 1
    /\ LowNibble(call.byte) = 10
    /\ ~Old.ram_write_enabled /\ ~cartridge.ram_write_enabled

\* C9: a write to 0x2000..0x3FFF on MBC2 sets current_rom_bank to
\* byte & 0x0F (1 if that is 0); on MBC1 to (old & 0xE0) | (byte & 0x1F),
\* replaced by 1 only when the whole new value is 0.  current_ram_bank,
\* rom_banking_mode and ram_write_enabled are unchanged.
C9_LowRomBankWrite ==
    (Managed /\ InLoRomRange /\ Old.banking_type \in {"MBC1", "MBC2"})
    => LET new == IF Old.banking_type = "MBC2"
                  THEN LowNibble(call.byte)
                  ELSE HighThree(Old.current_rom_bank) + LowFive(call.byte)
       IN  /\ cartridge.current_rom_bank = IF new = 0 THEN 1 ELSE new
           /\ cartridge.current_ram_bank = Old.current_ram_bank
           /\ cartridge.rom_banking_mode = Old.rom_banking_mode
           /\ cartridge.ram_write_enabled = Old.ram_write_enabled
           /\ cartridge.banking_type = Old.banking_type

\* On MBC1 the low bits were replaced under a non-zero high part that the
\* byte's own high bits would have changed.
C9_Witness ==
    /\ Managed /\ InLoRomRange /\ Old.banking_type = "MBC1"
    /\ HighThree(Old.current_rom_bank) = 96
    /\ LowFive(Old.current_rom_bank) = 31
    /\ call.byte = 226
    /\ cartridge.current_rom_bank = 98

\* C10: on MBC1 a write to 0x4000..0x5FFF in ROM banking mode sets
\* current_rom_bank to (old & 0x1F) | (byte & 0xE0) (1 if that is 0) and
\* leaves current_ram_bank unchanged; in RAM banking mode it sets
\* current_ram_bank to byte & 0x03 and leaves current_rom_bank unchanged.
C10_HighBitsOrRamBank ==
    (Managed /\ InHiRomRange /\ Old.banking_type = "MBC1")
    => IF Old.rom_banking_mode
       THEN LET new == LowFive(Old.current_rom_bank) + HighThree(call.byte)
            IN  /\ cartridge.current_rom_bank = IF new = 0 THEN 1 ELSE new
                /\ cartridge.current_ram_bank = Old.current_ram_bank
       ELSE /\ cartridge.current_ram_bank = LowTwo(call.byte)
            /\ cartridge.current_rom_bank = Old.current_rom_bank

\* In RAM banking mode a byte with bits above bit 1 set has selected a
\* non-zero RAM bank, and the ROM bank held its non-trivial value.
C10_Witness ==
    /\ Managed /\ InHiRomRange /\ Old.banking_type = "MBC1"
    /\ ~Old.rom_banking_mode
    /\ call.byte = 226
    /\ Old.current_rom_bank = 127
    /\ cartridge.current_ram_bank = 2 /\ cartridge.current_rom_bank = 127

\* The four control fields are as the write found them.
ControlUnchanged ==
    /\ cartridge.current_rom_bank = Old.current_rom_bank
    /\ cartridge.current_ram_bank = Old.current_ram_bank
    /\ cartridge.rom_banking_mode = Old.rom_banking_mode
    /\ cartridge.ram_write_enabled = Old.ram_write_enabled

\* C11: a control write that does not apply is ignored: with banking type
\* None every write, with MBC2 a write to 0x4000..0x7FFF, and with any banking
\* type a write at 0x8000 or above leaves current_rom_bank, current_ram_bank,
\* rom_banking_mode and ram_write_enabled unchanged.
C11_IgnoredControlWrites ==
    (/\ Managed
     /\ \/ Old.banking_type = "NoBanking"
        \/ Old.banking_type = "MBC2" /\ (InHiRomRange \/ InModeRange)
        \/ call.address >= 32768)
    => ControlUnchanged

\* An MBC2 cartridge that had selected bank 15 and enabled RAM writes got a
\* mode write with bit 0 set, and kept ROM banking mode and its other fields.
C11_Witness ==
    /\ Managed /\ InModeRange /\ Old.banking_type = "MBC2"
    /\ call.byte % 2 = 1
    /\ Old.current_rom_bank = 15 /\ Old.ram_write_enabled
    /\ cartridge.rom_banking_mode
    /\ ControlUnchanged

---------------------------------------------------------------------------
(* Interpreter claims, checked under CpuSpec.                              *)

Interpreted == call.op = "interpret_opcode"

HALT == \h76
POP_AF == \hF1

\* The opcode the last interpret_opcode call fetched.
Fetched == before.memory[before.cpu.reg_pc]

\* C2: a call of interpret_opcode made while halted returns 4, does not
\* panic, and leaves reg_pc, the five register pairs, interrupts_enabled,
\* halted and memory as they were; so no call of interpret_opcode turns
\* halted from true back to false.
C2_HaltStall ==
    (Interpreted /\ before.cpu.halted) =>
        /\ ~panic
        /\ ret = 4
        /\ cpu.reg_pc = before.cpu.reg_pc
        /\ cpu.reg_af = before.cpu.reg_af
        /\ cpu.reg_bc = before.cpu.reg_bc
        /\ cpu.reg_de = before.cpu.reg_de
        /\ cpu.reg_hl = before.cpu.reg_hl
        /\ cpu.reg_sp = before.cpu.reg_sp
        /\ cpu.interrupts_enabled = before.cpu.interrupts_enabled
        /\ cpu.halted
        /\ memory = before.memory

\* Opcode 0x76 has halted the CPU and a further call has been made: the
\* run has spent the 4 cycles of HALT and the 4 of the stalled call, and
\* reg_pc stands just after the HALT.
C2_Witness ==
    /\ Interpreted /\ before.cpu.halted
    /\ cpu.halted
    /\ cpu.reg_pc = \h0101
    /\ memory[\h0100] = HALT
    /\ ret = 4
    /\ spent = 8

\* C4: in every state reached from power-on, bits 0-3 of reg_af.lo are 0.
C4_FlagLowNibbleZero == cpu.reg_af.lo % 16 = 0

\* POP AF has loaded a word whose low byte, 0xFF in memory, has a non-zero
\* low nibble: reg_af.lo holds 0xF0.
C4_Witness ==
    /\ Interpreted /\ ~panic
    /\ ~before.cpu.halted
    /\ Fetched = POP_AF
    /\ before.memory[Wrap16(get_pair(before.cpu.reg_sp) + 1)] = \hFF
    /\ cpu.reg_af.lo = \hF0

---------------------------------------------------------------------------
(* Stack claims, checked under StackSpec.                                  *)

\* Plain writable memory: neither the cartridge's control range
\* 0x0000-0x7FFF nor its RAM window 0xA000-0xBFFF.
PlainWritable(address) ==
    address >= 32768 /\ ~(address >= 40960 /\ address < 49152)

\* A stack_pop that directly followed a stack_push.
PoppedAfterPush == call.op = "stack_pop" /\ call.prior.op = "stack_push"

\* The push found sp >= 2 with the two bytes below it in plain writable
\* memory.
PushedInPlainMemory ==
    /\ call.prior.sp >= 2
    /\ PlainWritable(call.prior.sp - 1)
    /\ PlainWritable(call.prior.sp - 2)

---------------------------------------------------------------------------
(* Arithmetic and logic claims, checked under AluSpec.  `call.arg` is the  *)
(* operand (or the byte lent), `before.cpu` the registers the call found.  *)

\* The flags of a flag byte, by arithmetic.
FlagZ(f) == (f \div 128) % 2 = 1
FlagN(f) == (f \div 64) % 2 = 1
FlagH(f) == (f \div 32) % 2 = 1
FlagC(f) == (f \div 16) % 2 = 1

\* Register A and the flag byte, as the call found them and as it left them.
OldA == before.cpu.reg_af.hi
OldF == before.cpu.reg_af.lo
NewA == cpu.reg_af.hi
NewF == cpu.reg_af.lo

\* The Carry flag the call found, as a number.
CarryIn == (OldF \div 16) % 2

\* C12 as stated: inc_u8 on a byte r yields r+1 mod 256, sets Zero iff the
\* result is 0, clears Subtract, sets Half-Carry iff (r & 0xF) + 1 > 0xF for
\* r the value before the increment, and leaves Carry unchanged.
C12_AsStated ==
    call.op = "inc_u8" =>
        /\ ret = (call.arg + 1) % 256
        /\ FlagZ(NewF) <=> ret = 0
        /\ ~FlagN(NewF)
        /\ FlagH(NewF) <=> (call.arg % 16) + 1 > 15
        /\ FlagC(NewF) <=> FlagC(OldF)

\* What inc_u8 does: everything C12 states, except that Half-Carry is taken
\* from the low nibble of the result, not of the value incremented.
C12_HalfCarryOfResult ==
    call.op = "inc_u8" =>
        /\ ret = (call.arg + 1) % 256
        /\ FlagZ(NewF) <=> ret = 0
        /\ ~FlagN(NewF)
        /\ FlagH(NewF) <=> (ret % 16) + 1 > 15
        /\ FlagC(NewF) <=> FlagC(OldF)

\* C13 as stated: dec_u8 on a byte r yields r-1 mod 256, sets Zero iff the
\* result is 0, sets Subtract, sets Half-Carry iff (r & 0xF) < 1 for r the
\* value before the decrement, and leaves Carry unchanged.
C13_AsStated ==
    call.op = "dec_u8" =>
        /\ ret = (call.arg + 255) % 256
        /\ FlagZ(NewF) <=> ret = 0
        /\ FlagN(NewF)
        /\ FlagH(NewF) <=> call.arg % 16 < 1
        /\ FlagC(NewF) <=> FlagC(OldF)

\* What dec_u8 does: everything C13 states, except that Half-Carry is taken
\* from the low nibble of the result, not of the value decremented.
C13_HalfCarryOfResult ==
    call.op = "dec_u8" =>
        /\ ret = (call.arg + 255) % 256
        /\ FlagZ(NewF) <=> ret = 0
        /\ FlagN(NewF)
        /\ FlagH(NewF) <=> ret % 16 < 1
        /\ FlagC(NewF) <=> FlagC(OldF)

\* C15 as stated: add_u8_a stores (A + src) mod 256 in A, sets Zero iff
\* that is 0, clears Subtract, sets Half-Carry iff (A & 0xF) + (src & 0xF)
\* > 0xF, and sets Carry iff A + src > 0xFF.
C15_AsStated ==
    call.op = "add_u8_a" =>
        /\ NewA = (OldA + call.arg) % 256
        /\ FlagZ(NewF) <=> NewA = 0
        /\ ~FlagN(NewF)
        /\ FlagH(NewF) <=> (OldA % 16) + (call.arg % 16) > 15
        /\ FlagC(NewF) <=> OldA + call.arg > 255

\* What add_u8_a does: everything C15 states, except that Carry is set iff
\* src plus the stored (wrapped) sum exceeds 0xFF.
C15_CarryOfWrappedSum ==
    call.op = "add_u8_a" =>
        /\ NewA = (OldA + call.arg) % 256
        /\ FlagZ(NewF) <=> NewA = 0
        /\ ~FlagN(NewF)
        /\ FlagH(NewF) <=> (OldA % 16) + (call.arg % 16) > 15
        /\ FlagC(NewF) <=> call.arg + NewA > 255

\* C16 as stated: with c the Carry flag found, adc_reg_a stores
\* (A + src + c) mod 256 in A, sets Zero iff that is 0, clears Subtract, sets
\* Half-Carry iff (A & 0xF) + (src & 0xF) + c > 0xF, and sets Carry iff
\* A + src + c > 0xFF.
C16_AsStated ==
    call.op = "adc_reg_a" =>
        /\ NewA = (OldA + call.arg + CarryIn) % 256
        /\ FlagZ(NewF) <=> NewA = 0
        /\ ~FlagN(NewF)
        /\ FlagH(NewF) <=> (OldA % 16) + (call.arg % 16) + CarryIn > 15
        /\ FlagC(NewF) <=> OldA + call.arg + CarryIn > 255

\* What adc_reg_a does: everything C16 states, except that Carry is set iff
\* src plus the stored (wrapped) sum exceeds 0xFF.
C16_CarryOfWrappedSum ==
    call.op = "adc_reg_a" =>
        /\ NewA = (OldA + call.arg + CarryIn) % 256
        /\ FlagZ(NewF) <=> NewA = 0
        /\ ~FlagN(NewF)
        /\ FlagH(NewF) <=> (OldA % 16) + (call.arg % 16) + CarryIn > 15
        /\ FlagC(NewF) <=> call.arg + NewA > 255

\* C17 as stated: sub_u8_a stores (A - src) mod 256 in A, sets Zero iff that
\* is 0, sets Subtract, sets Half-Carry iff (A & 0xF) < (result & 0xF), and
\* sets Carry iff src > A, A taken before the subtraction.
C17_AsStated ==
    call.op = "sub_u8_a" =>
        /\ NewA = (OldA + 256 - call.arg) % 256
        /\ FlagZ(NewF) <=> NewA = 0
        /\ FlagN(NewF)
        /\ FlagH(NewF) <=> OldA % 16 < NewA % 16
        /\ FlagC(NewF) <=> call.arg > OldA

\* What sub_u8_a does: everything C17 states, except that Carry is set iff
\* src is less than the stored difference.
C17_CarryOfDifference ==
    call.op = "sub_u8_a" =>
        /\ NewA = (OldA + 256 - call.arg) % 256
        /\ FlagZ(NewF) <=> NewA = 0
        /\ FlagN(NewF)
        /\ FlagH(NewF) <=> OldA % 16 < NewA % 16
        /\ FlagC(NewF) <=> call.arg < NewA

\* C18 as stated: with c the Carry flag found, sbc_reg_a stores
\* (A - src - c) mod 256 in A, sets Zero iff that is 0, sets Subtract, sets
\* Half-Carry iff (A & 0xF) < (result & 0xF) + c, and sets Carry iff an
\* unsigned borrow occurred (src + c > A).
C18_AsStated ==
    call.op = "sbc_reg_a" =>
        /\ NewA = (OldA + 512 - call.arg - CarryIn) % 256
        /\ FlagZ(NewF) <=> NewA = 0
        /\ FlagN(NewF)
        /\ FlagH(NewF) <=> OldA % 16 < (NewA % 16) + CarryIn
        /\ FlagC(NewF) <=> call.arg + CarryIn > OldA

\* What sbc_reg_a does: the result, Zero and Half-Carry are as C18 states,
\* but Subtract is cleared and Carry is set iff src plus the stored
\* difference exceeds 0xFF.
C18_AddTail ==
    call.op = "sbc_reg_a" =>
        /\ NewA = (OldA + 512 - call.arg - CarryIn) % 256
        /\ FlagZ(NewF) <=> NewA = 0
        /\ ~FlagN(NewF)
        /\ FlagH(NewF) <=> OldA % 16 < (NewA % 16) + CarryIn
        /\ FlagC(NewF) <=> call.arg + NewA > 255

\* The machine the last call found.
Found == [Machine(before.memory) EXCEPT !.cpu = before.cpu]

\* C19: cp_reg_a leaves register A as it found it, and leaves exactly the
\* flags that sub_u8_a leaves on the same A, flags and src.
C19_CompareKeepsA ==
    call.op = "cp_reg_a" =>
        /\ NewA = OldA
        /\ NewF = sub_u8_a(Found, call.arg).cpu.reg_af.lo

\* A = 0x80 has been compared with 0x80 while no flag was set: A still
\* holds 0x80, not the difference 0, and Zero and Subtract are set.
C19_Witness ==
    /\ call.op = "cp_reg_a"
    /\ OldA = 128 /\ call.arg = 128 /\ OldF = 0
    /\ NewA = 128
    /\ FlagZ(NewF) /\ FlagN(NewF)

\* Bit i of a byte.
BitOf(x, i) == (x \div (2 ^ i)) % 2

\* C20: and_reg_a stores A & src with Half-Carry set, or_reg_a and
\* xor_reg_a store A | src and A ^ src with Half-Carry clear; all three set
\* Zero iff the result is 0 and clear Subtract and Carry.
C20_LogicalOperations ==
    call.op \in {"and_reg_a", "or_reg_a", "xor_reg_a"} =>
        /\ NewA \in 0 .. 255
        /\ \A i \in 0 .. 7 :
              BitOf(NewA, i) =
                 CASE call.op = "and_reg_a" -> BitOf(OldA, i) * BitOf(call.arg, i)
                   [] call.op = "or_reg_a" ->
                        IF BitOf(OldA, i) + BitOf(call.arg, i) > 0 THEN 1 ELSE 0
                   [] call.op = "xor_reg_a" ->
                        (BitOf(OldA, i) + BitOf(call.arg, i)) % 2
        /\ FlagZ(NewF) <=> NewA = 0
        /\ ~FlagN(NewF)
        /\ FlagH(NewF) <=> call.op = "and_reg_a"
        /\ ~FlagC(NewF)

\* A = 0xF3 has been ANDed with 0x0F while Carry alone was set: A holds
\* 0x03, Half-Carry is set and Carry has been cleared.
C20_Witness ==
    /\ call.op = "and_reg_a"
    /\ OldA = 243 /\ call.arg = 15 /\ OldF = 16
    /\ NewA = 3
    /\ NewF = 32

---------------------------------------------------------------------------
(* Sequence claims, checked under SequenceSpec.                            *)

\* The sequence stands at `a`, below the top of the address space so that
\* the program counter can pass it.
SequenceAt(a) ==
    /\ a + 4 <= 65535
    /\ \A i \in 0 .. 3 :
          a + i \in DOMAIN before.memory /\ before.memory[a + i] = Sequence(a)[a + i]

\* The last call was the first call on the sequence at `a`: LD A,0x05.
FirstCallAt(a) ==
    /\ Interpreted /\ SequenceAt(a)
    /\ ~before.cpu.halted
    /\ before.cpu.reg_pc = a

\* The last call was the second call on the sequence at `a`: ADD A,0x0B
\* after the LD has loaded 0x05.
SecondCallAt(a) ==
    /\ Interpreted /\ SequenceAt(a)
    /\ ~before.cpu.halted
    /\ before.cpu.reg_pc = a + 2
    /\ before.cpu.reg_af.hi = 5

\* C14: un-halted, with pc at 0x3E 0x05 0xC6 0x0B, the first call of
\* interpret_opcode returns 8, moves pc on by 2 and leaves A = 0x05 and the
\* flags as they were; the second returns 8, leaves pc 4 past the start,
\* A = 0x10, and Zero clear, Subtract clear, Half-Carry set, Carry clear.
\* Neither call panics.
C14_LoadThenAdd ==
    \A a \in PcInputs :
        /\ FirstCallAt(a) =>
              /\ ~panic
              /\ ret = 8
              /\ cpu.reg_pc = a + 2
              /\ cpu.reg_af.hi = 5
              /\ cpu.reg_af.lo = before.cpu.reg_af.lo
        /\ SecondCallAt(a) =>
              /\ ~panic
              /\ ret = 8
              /\ cpu.reg_pc = a + 4
              /\ cpu.reg_af.hi = 16
              /\ cpu.reg_af.lo = 32

\* Both calls have been made on the sequence at 0xFFFB, reached with Zero
\* and Half-Carry set: pc stands at 0xFFFF, the run has spent 8 + 16 cycles
\* before the sequence and 8 + 8 on it, and the flag byte has changed.
C14_Witness ==
    /\ SecondCallAt(65531)
    /\ before.cpu.reg_af.lo = 160
    /\ cpu.reg_pc = 65535
    /\ cpu.reg_af.hi = 16
    /\ cpu.reg_af.lo = 32
    /\ spent = 40

---------------------------------------------------------------------------
(* Instruction claims, checked under InstructionSpec: one call of          *)
(* interpret_opcode on drawn registers.  `before` holds the registers and  *)
(* the memory the call found, Fetched the opcode it executed.              *)

Word(pair) == pair.hi * 256 + pair.lo

OldBC == Word(before.cpu.reg_bc)
OldDE == Word(before.cpu.reg_de)
OldHL == Word(before.cpu.reg_hl)
OldSP == Word(before.cpu.reg_sp)
OldPC == before.cpu.reg_pc

\* An instruction executed: the call was made un-halted.
Executed(opcodes) == Interpreted /\ ~before.cpu.halted /\ Fetched \in opcodes

ADD_HL_BC == \h09
ADD_HL_DE == \h19
ADD_HL_HL == \h29
ADD_HL_SP == \h39

\* The pair ADD HL,src16 adds, as the call found it.
OldSrc16 ==
    CASE Fetched = ADD_HL_BC -> OldBC
      [] Fetched = ADD_HL_DE -> OldDE
      [] Fetched = ADD_HL_HL -> OldHL
      [] Fetched = ADD_HL_SP -> OldSP

SourcePairsUnchanged ==
    /\ cpu.reg_bc = before.cpu.reg_bc
    /\ cpu.reg_de = before.cpu.reg_de
    /\ cpu.reg_sp = before.cpu.reg_sp

\* C21: after each of the opcodes 0x09, 0x19, 0x29 and 0x39, HL equals
\* (old HL + old source pair) mod 65536, so that ADD HL,HL doubles HL; the
\* source pair other than HL is unchanged and the cost is 8.
C21_AsStated ==
    Executed({ADD_HL_BC, ADD_HL_DE, ADD_HL_HL, ADD_HL_SP}) =>
        /\ ~panic
        /\ Word(cpu.reg_hl) = (OldHL + OldSrc16) % 65536
        /\ SourcePairsUnchanged
        /\ ret = 8

\* What the code does: 0x09, 0x19 and 0x39 add as claimed; 0x29 leaves HL
\* as it was and costs 8.
C21_AddHlHlKeepsHl ==
    /\ Executed({ADD_HL_BC, ADD_HL_DE, ADD_HL_SP}) =>
          /\ ~panic
          /\ Word(cpu.reg_hl) = (OldHL + OldSrc16) % 65536
          /\ SourcePairsUnchanged
          /\ ret = 8
    /\ Executed({ADD_HL_HL}) =>
          /\ ~panic
          /\ cpu.reg_hl = before.cpu.reg_hl
          /\ SourcePairsUnchanged
          /\ ret = 8

\* The sum of the low twelve bits of HL and of the pair added.
LowTwelveSum == (OldHL % 4096) + (OldSrc16 % 4096)

\* C22: add_u16_hl leaves Zero unchanged, clears Subtract, sets Half-Carry
\* iff (HL & 0xFFF) + (src & 0xFFF) > 0xFFF, a carry out of bit 11, and sets
\* Carry iff the unsigned sum HL + src exceeds 0xFFFF.
C22_AsStated ==
    Executed({ADD_HL_BC, ADD_HL_DE, ADD_HL_HL, ADD_HL_SP}) =>
        /\ FlagZ(NewF) = FlagZ(OldF)
        /\ ~FlagN(NewF)
        /\ FlagH(NewF) = (LowTwelveSum > 4095)
        /\ FlagC(NewF) = (OldHL + OldSrc16 > 65535)

\* What the code does: Half-Carry is bit 8 of that twelve-bit sum; Zero,
\* Subtract and Carry are as claimed.
C22_HalfCarryOfBit8 ==
    Executed({ADD_HL_BC, ADD_HL_DE, ADD_HL_HL, ADD_HL_SP}) =>
        /\ FlagZ(NewF) = FlagZ(OldF)
        /\ ~FlagN(NewF)
        /\ FlagH(NewF) = ((LowTwelveSum \div 256) % 2 = 1)
        /\ FlagC(NewF) = (OldHL + OldSrc16 > 65535)
        /\ NewF % 16 = OldF % 16

RLCA   == \h07
RRCA   == \h0F
RLA    == \h17
RRA    == \h1F
PREFIX == \hCB

\* The byte after the 0xCB prefix.
FetchedExtended == before.memory[(OldPC + 1) % 65536]

\* The register the n-th column of the opcode tables names: B, C, D, E, H,
\* L and, last, A ((HL), column 6, is not a register).
Column(c, n) ==
    CASE n = 0 -> c.reg_bc.hi
      [] n = 1 -> c.reg_bc.lo
      [] n = 2 -> c.reg_de.hi
      [] n = 3 -> c.reg_de.lo
      [] n = 4 -> c.reg_hl.hi
      [] n = 5 -> c.reg_hl.lo
      [] n = 7 -> c.reg_af.hi

\* A rotate the claim covers was executed: on the accumulator, or RLC on
\* one of B, C, D, E, H, L behind the prefix.
RotatedA == Executed({RLCA, RRCA, RLA, RRA})
RotatedExtended == Executed({PREFIX}) /\ FetchedExtended \in 0 .. 5
RotatesLeft == RotatedExtended \/ Fetched \in {RLCA, RLA}
RotatesCircular == RotatedExtended \/ Fetched \in {RLCA, RRCA}

\* The byte rotated, before and after.
RotateIn  == IF RotatedExtended THEN Column(before.cpu, FetchedExtended) ELSE OldA
RotateOut == IF RotatedExtended THEN Column(cpu, FetchedExtended) ELSE NewA

\* The bit rotated out, and the bit rotated in: the bit rotated out when
\* the rotate is circular, the incoming Carry otherwise.
BitOut == IF RotatesLeft THEN RotateIn \div 128 ELSE RotateIn % 2
BitIn  == IF RotatesCircular THEN BitOut ELSE CarryIn

\* C23: RLC and RRC rotate the byte circularly, RL yields
\* ((r << 1) & 0xFF) | c and RR yields (r >> 1) | (c << 7) for the incoming
\* Carry c; Carry becomes the bit rotated out, Zero = (result == 0),
\* Subtract and Half-Carry are cleared; for the accumulator opcodes 0x07,
\* 0x17, 0x0F, 0x1F and for 0xCB 0x00-0x05 on B, C, D, E, H, L.
C23_Rotates ==
    (RotatedA \/ RotatedExtended) =>
        /\ ~panic
        /\ RotateOut = IF RotatesLeft
                       THEN ((RotateIn * 2) % 256) + BitIn
                       ELSE (RotateIn \div 2) + BitIn * 128
        /\ FlagC(NewF) = (BitOut = 1)
        /\ FlagZ(NewF) = (RotateOut = 0)
        /\ ~FlagN(NewF)
        /\ ~FlagH(NewF)

\* RLA of 0x80 with Carry clear: the result is zero, Zero and Carry are set.
C23_Witness ==
    /\ Executed({RLA})
    /\ OldA = 128
    /\ ~FlagC(OldF)
    /\ NewA = 0
    /\ FlagZ(NewF)
    /\ FlagC(NewF)

JR_E8 == \h18
JR_CC == { \h20, \h28, \h30, \h38 }

\* The condition of a conditional branch, from bits 3-4 of its opcode: NZ,
\* Z, NC, C, on the flags the call found.
ConditionHolds ==
    CASE (Fetched \div 8) % 4 = 0 -> ~FlagZ(OldF)
      [] (Fetched \div 8) % 4 = 1 -> FlagZ(OldF)
      [] (Fetched \div 8) % 4 = 2 -> ~FlagC(OldF)
      [] (Fetched \div 8) % 4 = 3 -> FlagC(OldF)

\* The displacement byte of a relative jump, and its value as signed8.
Displacement == before.memory[(OldPC + 1) % 65536]
Signed8 == IF Displacement > 127 THEN Displacement - 256 ELSE Displacement

\* C24: after JR e8 (0x18) and after a taken JR cc (0x20, 0x28, 0x30, 0x38)
\* with the opcode at p and the displacement byte d, pc is
\* (p + 2 + signed8(d)) mod 65536 and the cost is 12.
C24_RelativeJumps ==
    (Executed({JR_E8}) \/ (Executed(JR_CC) /\ ConditionHolds)) =>
        /\ ~panic
        /\ cpu.reg_pc = (OldPC + 2 + Signed8) % 65536
        /\ ret = 12

\* JR Z taken with displacement 0xFF: pc ends one past the opcode address.
C24_Witness ==
    /\ Executed({\h28})
    /\ FlagZ(OldF)
    /\ Displacement = 255
    /\ cpu.reg_pc = OldPC + 1
    /\ ret = 12

RET_CC  == { \hC0, \hC8, \hD0, \hD8 }
JP_CC   == { \hC2, \hCA, \hD2, \hDA }
CALL_CC == { \hC4, \hCC, \hD4, \hDC }

\* The bytes of a conditional branch, opcode and operand, and its cost when
\* the condition is false and when it is true.
BranchLength == IF Fetched \in JR_CC THEN 2 ELSE IF Fetched \in RET_CC THEN 1 ELSE 3

CostNotTaken == IF Fetched \in JR_CC \/ Fetched \in RET_CC THEN 8 ELSE 12

CostTaken ==
    CASE Fetched \in JR_CC   -> 12
      [] Fetched \in JP_CC   -> 16
      [] Fetched \in CALL_CC -> 24
      [] Fetched \in RET_CC  -> 20

\* A conditional branch whose bytes all lie below the top of the address
\* space was executed.
Branched ==
    /\ Executed(JR_CC \cup JP_CC \cup CALL_CC \cup RET_CC)
    /\ OldPC + BranchLength <= 65535

\* C25: a conditional JR, JP, CALL or RET whose condition is false costs 8,
\* 12, 12, 8, less than the 12, 16, 24, 20 it costs when the condition is
\* true; pc ends past the operand bytes (opcode address + 2, 3, 3, 1), and
\* sp and memory are unchanged.
C25_ConditionalBranches ==
    /\ (Branched /\ ~ConditionHolds) =>
          /\ ~panic
          /\ ret = CostNotTaken
          /\ ret < CostTaken
          /\ cpu.reg_pc = OldPC + BranchLength
          /\ cpu.reg_sp = before.cpu.reg_sp
          /\ memory = before.memory
          /\ cartridge = before.cartridge
    /\ (Branched /\ ConditionHolds /\ ~panic) => ret = CostTaken

\* CALL NC with Carry set: not taken, 12 cycles, pc three past the opcode.
C25_Witness ==
    /\ Executed({\hD4})
    /\ FlagC(OldF)
    /\ ~panic
    /\ ret = 12
    /\ cpu.reg_pc = OldPC + 3
    /\ cpu.reg_sp = before.cpu.reg_sp

\* The primary opcodes the claim lists as undefined, and the cycle costs.
UndefinedOpcodes ==
    { \hD3, \hDB, \hDD, \hE3, \hE4, \hEB, \hEC, \hED, \hF4, \hFC, \hFD }

CycleCosts == { 4, 8, 12, 16, 20, 24 }

\* C26: an un-halted interpret_opcode aborts exactly when the fetched byte
\* is one of 0xD3, 0xDB, 0xDD, 0xE3, 0xE4, 0xEB, 0xEC, 0xED, 0xF4, 0xFC,
\* 0xFD; for every other first byte except the 0xCB prefix it returns a
\* cycle cost in {4, 8, 12, 16, 20, 24} without aborting.
C26_AsStated ==
    Executed(0 .. 255) =>
        /\ (Fetched \in UndefinedOpcodes) => panic
        /\ (Fetched \notin UndefinedOpcodes /\ Fetched # PREFIX) =>
              (~panic /\ ret \in CycleCosts)

\* What the code does: the eleven opcodes abort in every build and no other
\* abort exists in a build without overflow checks; a call that returns
\* returns one of the six costs.
C26_AbortsOnOverflowToo ==
    Executed(0 .. 255) =>
        /\ (Fetched \in UndefinedOpcodes) => panic
        /\ (Fetched \notin UndefinedOpcodes /\ Fetched # PREFIX) =>
              /\ panic => overflow_checks
              /\ ~panic => ret \in CycleCosts

\* C27: behind the 0xCB prefix, for every second byte b, the instruction
\* consumes exactly that byte and returns 16 when b's operand is (HL)
\* (b & 0x07 = 6) and 8 when it is a register, without aborting for any b.
C27_AsStated ==
    (Executed({PREFIX}) /\ OldPC + 2 <= 65535) =>
        /\ ~panic
        /\ cpu.reg_pc = OldPC + 2
        /\ ret = IF FetchedExtended % 8 = 6 THEN 16 ELSE 8

\* What the code does: 0xCB 0x07 aborts; every other second byte is as
\* claimed.
C27_AbortsOnRlcA ==
    (Executed({PREFIX}) /\ OldPC + 2 <= 65535) =>
        IF FetchedExtended = \h07
        THEN panic
        ELSE /\ ~panic
             /\ cpu.reg_pc = OldPC + 2
             /\ ret = IF FetchedExtended % 8 = 6 THEN 16 ELSE 8

HALT_OPCODE == \h76

\* A move of the block 0x40-0x7F was executed; its destination and source
\* columns are bits 3-5 and bits 0-2 of the opcode, column 6 being (HL).
Moved == Executed((\h40 .. \h7F) \ {HALT_OPCODE})
Dst == (Fetched \div 8) % 8
Src == Fetched % 8

\* The byte the memory operand (HL) held when the call was made.
OldAtHL ==
    read_memory([memory |-> before.memory, cartridge |-> before.cartridge], OldHL)

SourceValue == IF Src = 6 THEN OldAtHL ELSE Column(before.cpu, Src)

\* The move stored `value` in its destination and changed nothing else but
\* pc.  A store to (HL) is looked at where HL addresses plain memory.
MovedAs(value) ==
    /\ ~panic
    /\ \A n \in {0, 1, 2, 3, 4, 5, 7} :
          Column(cpu, n) = IF n = Dst THEN value ELSE Column(before.cpu, n)
    /\ NewF = OldF
    /\ cpu.reg_sp = before.cpu.reg_sp
    /\ cpu.interrupts_enabled = before.cpu.interrupts_enabled
    /\ cpu.halted = before.cpu.halted
    /\ cpu.reg_pc = OldPC + 1
    /\ Dst # 6 => (memory = before.memory /\ cartridge = before.cartridge)
    /\ (Dst = 6 /\ PlainWritable(OldHL)) =>
          /\ memory = (OldHL :> value) @@ before.memory
          /\ cartridge = before.cartridge

\* C28: after every opcode in 0x40..0x7F except 0x76 the destination
\* operand selected by bits 3-5 (B, C, D, E, H, L, (HL), A) holds the value
\* the source operand selected by bits 0-2 had before, and no other
\* register, flag or memory byte changes apart from pc advancing by 1.
C28_AsStated == Moved => MovedAs(SourceValue)

\* What the code does: 0x45 (LD B,L) and 0x4D (LD C,L) load E; every other
\* move is as claimed.
C28_LoadsEForL ==
    Moved => MovedAs(IF Fetched \in {\h45, \h4D}
                     THEN before.cpu.reg_de.lo
                     ELSE SourceValue)

\* C29: in the block 0x40..0x7F, HALT excluded, a move between two
\* registers returns cost 4 and a move whose source or destination is the
\* memory operand (HL) returns cost 8.
C29_AsStated ==
    Moved => (~panic /\ ret = IF Src = 6 \/ Dst = 6 THEN 8 ELSE 4)

\* What the code does: 0x4E (LD C,(HL)) returns 4; every other move is as
\* claimed.
C29_LoadCFromHlCostsFour ==
    Moved =>
        /\ ~panic
        /\ ret = IF (Src = 6 \/ Dst = 6) /\ Fetched # \h4E THEN 8 ELSE 4

LD_HLI_A == \h22
LD_A_HLI == \h2A
LD_HLD_A == \h32
LD_A_HLD == \h3A

\* HL one up and one down, mod 65536.
HLUp   == (OldHL + 1) % 65536
HLDown == (OldHL + 65535) % 65536

\* The same store once more: the outcome of a second LD (HL+),A placed
\* where pc now points.
StoredAgain == interpret_opcode(Machine((cpu.reg_pc :> LD_HLI_A) @@ memory))

\* C30: LD (HL+),A (0x22) and LD (HL-),A (0x32) write A to the address HL
\* held before the instruction and then set HL to HL+1 / HL-1 (mod 65536);
\* LD A,(HL+) (0x2A) and LD A,(HL-) (0x3A) read from the old HL and then
\* update HL; so two consecutive LD (HL+),A write addresses h and h+1.  A
\* write is looked at where the address is plain memory.
C30_PostIncrementOrder ==
    /\ Executed({LD_HLI_A, LD_HLD_A}) =>
          /\ ~panic
          /\ Word(cpu.reg_hl) = IF Fetched = LD_HLI_A THEN HLUp ELSE HLDown
          /\ NewA = OldA
          /\ PlainWritable(OldHL) =>
                memory = (OldHL :> OldA) @@ before.memory
    /\ Executed({LD_A_HLI, LD_A_HLD}) =>
          /\ ~panic
          /\ NewA = OldAtHL
          /\ Word(cpu.reg_hl) = IF Fetched = LD_A_HLI THEN HLUp ELSE HLDown
          /\ memory = before.memory
    /\ (Executed({LD_HLI_A}) /\ PlainWritable(OldHL) /\ PlainWritable(HLUp)) =>
          /\ ~StoredAgain.panic
          /\ StoredAgain.memory[OldHL] = OldA
          /\ StoredAgain.memory[HLUp] = OldA
          /\ Word(StoredAgain.cpu.reg_hl) = OldHL + 2

\* LD (HL+),A with HL = 0xC000 and A = 0x80: the byte is at 0xC000, HL is
\* 0xC001, and a second LD (HL+),A puts it at 0xC001 as well.
C30_Witness ==
    /\ Executed({LD_HLI_A})
    /\ OldHL = 49152
    /\ OldA = 128
    /\ memory[49152] = 128
    /\ Word(cpu.reg_hl) = 49153
    /\ StoredAgain.memory[49153] = 128

NOP == \h00

\* Every register pair but pc, the two switches and memory are as the call
\* found them.
AllButPcUnchanged ==
    /\ cpu.reg_af = before.cpu.reg_af
    /\ cpu.reg_bc = before.cpu.reg_bc
    /\ cpu.reg_de = before.cpu.reg_de
    /\ cpu.reg_hl = before.cpu.reg_hl
    /\ cpu.reg_sp = before.cpu.reg_sp
    /\ cpu.interrupts_enabled = before.cpu.interrupts_enabled
    /\ cpu.halted = before.cpu.halted
    /\ memory = before.memory
    /\ cartridge = before.cartridge

\* C31: with halted false and opcode 0x00 at pc, interpret_opcode returns
\* 4, sets pc to pc + 1, and leaves af, bc, de, hl, sp, interrupts_enabled,
\* halted and memory unchanged.
C31_Nop ==
    Executed({NOP}) =>
        /\ ~panic
        /\ ret = 4
        /\ cpu.reg_pc = OldPC + 1
        /\ AllButPcUnchanged

\* NOP at 0x0100: pc becomes 0x0101 and the call returns 4.
C31_Witness ==
    /\ Executed({NOP})
    /\ OldPC = 256
    /\ cpu.reg_pc = 257
    /\ ret = 4
    /\ ~cpu.halted

RETI == \hD9
DI   == \hF3
EI   == \hFB

\* The byte the call found at `address`.
OldAt(address) ==
    read_memory([memory |-> before.memory, cartridge |-> before.cartridge], address)

\* C32: interrupts_enabled starts false, is true after EI (0xFB) and after
\* RETI (0xD9, which also pops pc and costs 16), false after DI (0xF3), and
\* is left unchanged by every other primary and extended opcode and by a
\* halted step.
C32_InterruptMasterEnable ==
    /\ ~NewCpu.interrupts_enabled
    /\ Executed({EI, DI}) => ~panic
    /\ (Interpreted /\ ~panic) =>
          cpu.interrupts_enabled =
             IF before.cpu.halted THEN before.cpu.interrupts_enabled
             ELSE IF Fetched \in {EI, RETI} THEN TRUE
             ELSE IF Fetched = DI THEN FALSE
             ELSE before.cpu.interrupts_enabled
    /\ (Executed({RETI}) /\ ~panic) =>
          /\ ret = 16
          /\ cpu.reg_pc = OldAt(OldSP) * 256 + OldAt((OldSP + 1) % 65536)
          /\ Word(cpu.reg_sp) = (OldSP + 2) % 65536

\* DI with interrupts enabled: they are disabled and the call returns 4.
C32_Witness ==
    /\ Executed({DI})
    /\ before.cpu.interrupts_enabled
    /\ ~cpu.interrupts_enabled
    /\ ret = 4

---------------------------------------------------------------------------
(* Loading claims, checked under LoadSpec.  `call.rom` is the ROM file     *)
(* Cartridge::new was called on.                                           *)

Loaded == call.op = "new"

PowerOfTwo(n) == \E k \in 0 .. 22 : n = 2 ^ k

\* The ROM file is one the claim lets load: readable, its length a power
\* of two from 1 to 0x200000, with a byte at offset 0x147 that is in 0..6.
Loadable ==
    /\ call.rom.readable
    /\ PowerOfTwo(call.rom.len)
    /\ 1 <= call.rom.len
    /\ call.rom.len <= 2097152
    /\ call.rom.len > 327
    /\ call.rom.header \in 0 .. 6

\* C33: loading aborts unless the ROM length is a power of two with
\* 1 <= len <= 0x200000 and the byte at offset 0x147 is in 0..6; otherwise
\* banking_type is NoBanking for 0, MBC1 for 1..3, MBC2 for 4..6, and the
\* cartridge starts with current_rom_bank = 1, current_ram_bank = 0,
\* rom_banking_mode = true, ram_write_enabled = false.
C33_LoadAllOrFatal ==
    Loaded =>
        /\ panic = ~Loadable
        /\ Loadable =>
              /\ cartridge.banking_type =
                    IF call.rom.header = 0 THEN "NoBanking"
                    ELSE IF call.rom.header <= 3 THEN "MBC1" ELSE "MBC2"
              /\ cartridge.current_rom_bank = 1
              /\ cartridge.current_ram_bank = 0
              /\ cartridge.rom_banking_mode
              /\ ~cartridge.ram_write_enabled

\* A 32 KB ROM with header byte 5 loads as MBC2.
C33_Witness ==
    /\ Loaded
    /\ call.rom.len = 32768
    /\ call.rom.header = 5
    /\ ~panic
    /\ cartridge.banking_type = "MBC2"
    /\ cartridge.current_rom_bank = 1

\* The extended opcodes whose arm is a bare cycle count: 0x06 and 0x09-0xFF.
Unimplemented == { 6 } \cup (9 .. 255)

\* C34: for every extended opcode outside the rotate-left-circular group
\* (second byte 0x06 and 0x09..0xFF), executing 0xCB followed by that byte
\* changes only pc, which advances by 2; all register pairs, all flags,
\* halted, interrupts_enabled and memory are unchanged.
C34_UnimplementedExtended ==
    (Executed({PREFIX}) /\ FetchedExtended \in Unimplemented) =>
        /\ ~panic
        /\ cpu.reg_pc = OldPC + 2
        /\ AllButPcUnchanged

\* 0xCB 0x37 (SWAP A on the hardware) with A = 0x80 leaves A at 0x80.
C34_Witness ==
    /\ Executed({PREFIX})
    /\ FetchedExtended = 55
    /\ OldA = 128
    /\ NewA = 128
    /\ cpu.reg_pc = OldPC + 2
    /\ ~panic

---------------------------------------------------------------------------
(* RAM accessor claims, checked under RamSpec.                             *)

\* The byte the last set_ram(offset, .) stored, 0 if there was none.
LastStored(offset) ==
    IF offset \in DOMAIN call.stored THEN call.stored[offset] ELSE 0

\* C35: for every offset below 0x8000, get_ram(o) returns the byte last
\* stored by set_ram(o, .), 0 if none, whatever current_ram_bank and
\* ram_write_enabled are and whatever manage_banking calls were made in
\* between: set_ram is not gated by ram_write_enabled and selecting a RAM
\* bank does not change which byte an offset reads.
C35_RawRamAccessors ==
    /\ call.op = "get_ram" => ret = LastStored(call.address)
    /\ call.op \in { "set_ram", "get_ram", "manage_banking" } =>
          \A offset \in RamOffsets :
              get_ram(cartridge, offset) = LastStored(offset)

\* On MBC1 with RAM writes disabled and RAM bank 3 selected, offset 0 reads
\* the 0x5A stored there.
C35_Witness ==
    /\ call.op = "get_ram"
    /\ call.address = 0
    /\ ret = 90
    /\ cartridge.banking_type = "MBC1"
    /\ ~cartridge.ram_write_enabled
    /\ cartridge.current_ram_bank = 3
    /\ ~cartridge.rom_banking_mode

---------------------------------------------------------------------------
(* Call and return claims, checked under CallSpec.                         *)

CALL == \hCD
RST  == { \hC7 + 8 * n : n \in 0 .. 7 }

\* The last call of interpret_opcode executed a call: CALL nn, RST n, or a
\* CALL cc,nn whose condition held.
CallMade ==
    \/ Executed({CALL} \cup RST)
    \/ Executed(CALL_CC) /\ ConditionHolds

\* The bytes of the call instruction, and where it leads: the vector of an
\* RST, the little-endian operand of a CALL as the call found it.
CallLength == IF Fetched \in RST THEN 1 ELSE 3

CallTarget ==
    IF Fetched \in RST
    THEN Fetched - 199
    ELSE before.memory[OldPC + 1] + 256 * before.memory[OldPC + 2]

\* The instruction about to run is a RET, right after a call.
ReturningFromCall ==
    /\ CallMade
    /\ ~panic
    /\ cpu.reg_pc \in DOMAIN memory
    /\ memory[cpu.reg_pc] = RET

\* The step runs that RET to its end, with pc back behind the call
\* instruction and sp as the call found it.
ReturnedBehindCall ==
    /\ ~panic'
    /\ cpu'.reg_pc = OldPC + CallLength
    /\ Word(cpu'.reg_sp) = OldSP

\* C36: CALL a16, every taken CALL cc and every RST sets pc to the
\* little-endian operand (CALL) or to the vector 0x00, 0x08, ..., 0x38
\* (RST); a RET executed right after it at the target leaves pc at the
\* address of the instruction following the call (call address + 3 for
\* CALL, + 1 for RST) and sp equal to its value before the call.
C36_AsStated ==
    /\ [](CallMade => (~panic /\ cpu.reg_pc = CallTarget))
    /\ [][ReturningFromCall => ReturnedBehindCall]_vars

\* The two bytes the call pushes lie in plain writable memory, below an
\* sp of at least 2, and are not bytes of the call's own operand.
StackOfItsOwn ==
    /\ OldSP >= 2
    /\ PlainWritable(OldSP - 1)
    /\ PlainWritable(OldSP - 2)
    /\ {OldSP - 1, OldSP - 2} \cap {OldPC + 1, OldPC + 2} = {}

\* What the code does: the pairing holds on a stack of its own.  The call
\* pushes before it reads its operand, so a stack right above the operand
\* overwrites it and the call leads elsewhere; below sp = 2 the push
\* overflows; a stack in ROM keeps nothing.
C36_PairsOnAStackOfItsOwn ==
    /\ []((CallMade /\ StackOfItsOwn) => (~panic /\ cpu.reg_pc = CallTarget))
    /\ [][(ReturningFromCall /\ StackOfItsOwn) => ReturnedBehindCall]_vars

---------------------------------------------------------------------------
(* More instruction claims, checked under InstructionSpec.                 *)

INC_AT_HL == \h34
DEC_AT_HL == \h35

\* The byte at the address in HL after the call.
NewAtHL ==
    read_memory([memory |-> memory, cartridge |-> cartridge], OldHL)

\* The flag byte inc_u8 / dec_u8 leaves for the byte the call found at HL,
\* as INC r / DEC r leave it for a register holding that byte.
FlagsOfStep ==
    LET found == [Machine(before.memory) EXCEPT !.cpu = before.cpu]
    IN  IF Fetched = INC_AT_HL
        THEN inc_u8(found, OldAtHL).m.cpu.reg_af.lo
        ELSE dec_u8(found, OldAtHL).m.cpu.reg_af.lo

\* C37: after INC (HL) / DEC (HL) (0x34, 0x35) the byte at the address in
\* HL is its previous value plus 1 / minus 1 mod 256, the flags are those
\* of INC r / DEC r on that byte, HL is unchanged and the cost is 12.
\* Stated where HL addresses plain writable memory.
C37_AsStated ==
    (Executed({INC_AT_HL, DEC_AT_HL}) /\ PlainWritable(OldHL)) =>
        /\ ~panic
        /\ ret = 12
        /\ cpu.reg_hl = before.cpu.reg_hl
        /\ NewAtHL = (OldAtHL + (IF Fetched = INC_AT_HL THEN 1 ELSE 255)) % 256
        /\ NewF = FlagsOfStep

\* What the code does: the byte is read into a temporary, inc_u8 / dec_u8
\* steps the temporary and sets the flags, and nothing is written back:
\* only pc and the flags change.
C37_StepsATemporary ==
    Executed({INC_AT_HL, DEC_AT_HL}) =>
        /\ ~panic
        /\ ret = 12
        /\ cpu.reg_pc = OldPC + 1
        /\ NewF = FlagsOfStep
        /\ NewA = OldA
        /\ [cpu EXCEPT !.reg_af = before.cpu.reg_af, !.reg_pc = OldPC] = before.cpu
        /\ memory = before.memory
        /\ cartridge = before.cartridge

INC_RR == { \h03, \h13, \h23, \h33 }
DEC_RR == { \h0B, \h1B, \h2B, \h3B }

\* The pair INC rr / DEC rr names: BC, DE, HL, SP by opcode row.
PairOf(c) ==
    CASE Fetched \div 16 = 0 -> c.reg_bc
      [] Fetched \div 16 = 1 -> c.reg_de
      [] Fetched \div 16 = 2 -> c.reg_hl
      [] Fetched \div 16 = 3 -> c.reg_sp

\* The call returned 8 with the pair stepped by `step` mod 65536 and the
\* flags kept.
SteppedBy(step) ==
    /\ ~panic
    /\ ret = 8
    /\ Word(PairOf(cpu)) = (Word(PairOf(before.cpu)) + step) % 65536
    /\ NewF = OldF

\* C38: INC BC/DE/HL/SP (0x03, 0x13, 0x23, 0x33) yield (pair + 1) mod 65536
\* and DEC BC/DE/HL/SP (0x0B, 0x1B, 0x2B, 0x3B) yield (pair - 1) mod 65536,
\* 0xFFFF + 1 = 0x0000 and 0x0000 - 1 = 0xFFFF included, without aborting,
\* changing no flag, at cost 8; and inc_reg_pair followed by dec_reg_pair
\* restores the pair.
C38_AsStated ==
    /\ Executed(INC_RR) => SteppedBy(1)
    /\ Executed(DEC_RR) => SteppedBy(65535)
    /\ dec_reg_pair(inc_reg_pair(cpu.reg_hl)) = cpu.reg_hl

\* What the code does: the DEC rr arms subtract with `val - 1`, which
\* aborts on a zero pair when overflow checks are compiled in; everything
\* else is as claimed.
C38_DecAbortsOnZero ==
    /\ Executed(INC_RR) => SteppedBy(1)
    /\ Executed(DEC_RR) =>
          IF overflow_checks /\ Word(PairOf(before.cpu)) = 0
          THEN panic
          ELSE SteppedBy(65535)
    /\ dec_reg_pair(inc_reg_pair(cpu.reg_hl)) = cpu.reg_hl

---------------------------------------------------------------------------
(* More cartridge claims, checked under CartSpec.                          *)

\* C39: in every state reachable from the initial cartridge state by
\* manage_banking calls, current_ram_bank is in 0..3, and whenever
\* rom_banking_mode is true current_ram_bank is 0.
C39_RamBankInvariant ==
    /\ cartridge.current_ram_bank \in 0 .. 3
    /\ cartridge.rom_banking_mode => cartridge.current_ram_bank = 0

\* A write to the mode range found RAM bank 3 selected and left ROM
\* banking mode with RAM bank 0.
C39_Witness ==
    /\ Managed
    /\ InModeRange
    /\ ~Old.rom_banking_mode
    /\ Old.current_ram_bank = 3
    /\ cartridge.rom_banking_mode
    /\ cartridge.current_ram_bank = 0

\* Two writes in a row on MBC1 in ROM banking mode, one to the low
\* bank-select range and one to the high, in either order.  `call` is the
\* first write and found `Old`; the step makes the second.
LowThenHigh ==
    /\ InLoRomRange
    /\ call'.address >= 16384 /\ call'.address < 24576

HighThenLow ==
    /\ InHiRomRange
    /\ call'.address >= 8192 /\ call'.address < 16384

BankSelectPair ==
    /\ Managed
    /\ call'.op = "manage_banking"
    /\ Old.banking_type = "MBC1"
    /\ Old.rom_banking_mode
    /\ LowThenHigh \/ HighThenLow

\* The low five bits written and the high three, whichever came first.
LowWritten  == IF InLoRomRange THEN LowFive(call.byte) ELSE LowFive(call'.byte)
HighWritten == IF InHiRomRange THEN HighThree(call.byte) ELSE HighThree(call'.byte)

\* (H & 0xE0) | (L & 0x1F), or 1 when that is 0.
SelectedBank ==
    IF HighWritten + LowWritten = 0 THEN 1 ELSE HighWritten + LowWritten

\* C40: on MBC1 in ROM banking mode, writing low bits L to 0x2000..0x3FFF
\* and high bits H to 0x4000..0x5FFF leaves the same current_rom_bank
\* whichever write is made first: (H & 0xE0) | (L & 0x1F), or 1 when that
\* value is 0.
C40_AsStated ==
    [][BankSelectPair => cartridge'.current_rom_bank = SelectedBank]_vars

\* What the code does: the low write made first with L & 0x1F = 0 on a bank
\* whose bits 5-7 are 0 stores the bumped bank 1, and the high write then
\* keeps that bit 0: the pair leaves (H & 0xE0) | 1 where the other order
\* leaves H & 0xE0.  Every other pair is as claimed.
C40_BumpIsKept ==
    [][BankSelectPair =>
          cartridge'.current_rom_bank =
              IF /\ LowThenHigh
                 /\ LowWritten = 0
                 /\ HighThree(Old.current_rom_bank) = 0
                 /\ HighWritten # 0
              THEN HighWritten + 1
              ELSE SelectedBank]_vars

---------------------------------------------------------------------------
(* Frame driver claims, checked under FrameSpec.                           *)

\* The cheapest instruction costs 4 cycles.
MinCycles == 4

\* C6 as stated: each iteration of step's loop executes an instruction and
\* adds its cycle cost to the frame's count, so that the count reaches the
\* budget of 69905, the loop exits and step returns.  Whenever the loop
\* test is reached, every iteration done so far has run interpret_opcode
\* (at least 4 cycles each) and its cost is part of cycles_per_step.
C6_AsStated ==
    gameboy.at = "while" =>
        /\ spent >= MinCycles * calls
        /\ gameboy.cycles_per_step >= MinCycles * calls

\* What the loop does instead: however many iterations are done, no
\* instruction has run, the count is 0, and step has not returned.
C6_NeverAccumulates ==
    /\ spent = 0
    /\ gameboy.at # "idle" => gameboy.cycles_per_step = 0
    /\ gameboy.at # "returned"

=============================================================================
